---------------------------- MODULE Spec2Model ----------------------------
(***************************************************************************)
(* State-machine model of the MILO solver interface                        *)
(* (src/src/interfaces/solverInterface.cpp) and of the parts of the        *)
(* subgrid model (SubGridFEM2) it drives.                                  *)
(*                                                                         *)
(* Abstractions used throughout:                                           *)
(*   - a distributed vector is a function from global DOF ids to integers; *)
(*     the overlapped/owned distinction is kept only where the code sums   *)
(*     over owned rows or over ranks;                                      *)
(*   - time is counted in units of deltat = finaltime/numsteps;            *)
(*   - u_dot and phi_dot are stored multiplied by 2*deltat, so that        *)
(*     alpha = 1/deltat is the integer 2 and alpha = 3/(2 deltat) is 3;    *)
(*   - a residual is represented by its infinity norm, an integer level,   *)
(*     level 0 standing for every value <= 1.0e-14;                        *)
(*   - rationals (tolerances, scaled norms) are records [num, den].        *)
(***************************************************************************)
EXTENDS Integers, Sequences, FiniteSets, TLC

(***************************************************************************)
(* Bounds of the model                                                     *)
(***************************************************************************)
\* largest configured number of time steps ("numSteps")
MaxSteps == 2
\* largest configured Newton iteration cap ("MaxNLiter")
MaxIterCap == 3
\* largest residual-norm level an assembly pass can produce
MaxNorm == 2
\* numbers of active (scalar) parameters of a full solver run
RunParamCounts == {0, 1}

\* entries of a Newton increment du returned by the linear solve
DuVals == {0, 1}
\* entries of an initial condition / of a forward trajectory handed to adjointModel
SolVals == {0, 1}
\* per-row values of dR/dtheta and per-rank values of the objective derivative
SensVals == {0, 1}
\* configured "Initial Time", in units of deltat
InitialTimes == {0, 1}
\* verbosity levels: silent, and above the threshold of the failure message
Verbosities == {0, 2}
\* subgrid cost of a rank, as multiscale_manager returns it
CostVals == {1, 2, 3}

(***************************************************************************)
(* Rationals                                                               *)
(***************************************************************************)
Rat(n, d) == [num |-> n, den |-> d]
RatGT(a, b) == a.num * b.den > b.num * a.den
RatTimes(k, a) == [num |-> k * a.num, den |-> a.den]

\* configured nonlinear tolerances "NLtol": negative, zero, one half
NLtolChoices == {Rat(-1, 1), Rat(0, 1), Rat(1, 2)}

(***************************************************************************)
(* Vectors over a set of DOFs                                              *)
(***************************************************************************)
VZero(D) == [i \in D |-> 0]
\* Tpetra MultiVector::update(a, X, 1.0): this := this + a*X
VUpdate(v, a, x) == [i \in DOMAIN v |-> v[i] + a * x[i]]


(***************************************************************************)
(* State                                                                   *)
(***************************************************************************)
VARIABLES
  \* settings read by the constructor solver::solver
  solver_type, numsteps, time_order, NLtol, MaxNLiter, verbosity,
  initial_time, num_active_params, numDiscParams, multiscale, LA_owned, my_cost,
  compute_objective,
  \* settings read by the constructor SubGridFEM2::SubGridFEM2
  time_steps, sub_maxNLiter,
  \* boundary conditions: "use strong DBCs", the kind of the boundary side
  \* each DOF lies on (0 for none), and the point-Dirichlet DOFs
  usestrongDBCs, side_info, dbc_dofs,
  \* members of solver
  useadjoint, current_time, is_final_time, store_adjPrev,
  \* control: the statement the running call is at, and the call it belongs to
  pc, call,
  \* locals of forwardModel / adjointModel / transientSolver
  u, u_dot, phi, phi_dot, SolMat, L_soln, alpha, timeiter, gradient,
  \* locals of nonlinearSolver
  NLiter, maxiter, NLerr_first, NLerr_scaled, res_over, res, du_over, du,
  \* what the last nonlinearSolver call printed on rank 0
  reported,
  \* history of the running nonlinear solve: events of the current iteration
  \* and numbers of assembly passes, linear solves and updates so far
  trace, passes, solves, updates,
  \* arguments of the last assembleJacRes call
  passLog,
  \* snapshot of the state the last time-step prologue left
  stepLog,
  \* inputs of the computeSensitivities(u,...) call of the time step just
  \* ended (forgotten when the next step begins)
  sensLog,
  \* the load-balancing factor last computed: gmin and gmax as they are when
  \* the ratio gmax/gmin is formed, and whether the ratio is printed
  balance,
  \* summary of the last Epetra linearSolver call
  lin,
  \* SubGridFEM2: members is_final_time and cells[.][.]->adjPrev, and the
  \* nonlinear passes of the last subgridSolver call
  sub_is_final_time, adjPrev, subPasses,
  \* SubGridFEM2: the member vectors u and phi, shared by the macro elements
  \* of the subgrid model
  sub_u, sub_phi,
  \* SubGridFEM2: the forward and adjoint trajectories of each macro element
  soln, adjsoln,
  \* SubGridFEM2: the subgridSolver call of each macro element (arguments,
  \* locals, position and what it has done so far), and the number of calls
  frame, sub_calls,
  \* thermal: the settings "dim" and "form_param", the members varlist,
  \* e_num, ux_num, uy_num, uz_num and have_nsvel, and the workset as the
  \* last residual or flux call left it
  spaceDim, formparam, varlist, e_num, ux_num, uy_num, uz_num, have_nsvel, wkset,
  \* the argument of the last params->sacadoizeParams call
  seed_active,
  \* SubGridFEM2: the member vectors u_dot and phi_dot
  sub_u_dot, sub_phi_dot,
  \* the mesh of the rank: LA_ownedAndShared as a list, the GIDs of each
  \* element and the offsets of each variable's basis functions in them
  \* (positions counted from 1); the index table setIndex received and the
  \* entries of LA_overlapped_graph
  ownedAndShared, GIDs, curroffsets, cellindices, LA_overlapped_graph

settings == <<solver_type, numsteps, time_order, NLtol, MaxNLiter, verbosity,
              initial_time, num_active_params, numDiscParams, multiscale, LA_owned,
              my_cost, time_steps, sub_maxNLiter, usestrongDBCs, side_info,
              dbc_dofs, compute_objective>>
members == <<useadjoint, current_time, is_final_time, store_adjPrev>>
tsLocals == <<u, u_dot, phi, phi_dot, SolMat, L_soln, alpha, timeiter, gradient>>
nlLocals == <<NLiter, maxiter, NLerr_first, NLerr_scaled, res_over, res, du_over, du>>
history == <<reported, trace, passes, solves, updates, passLog, stepLog, sensLog,
             balance>>
subgrid == <<sub_is_final_time, adjPrev, subPasses>>
sgfem == <<sub_u, sub_phi, soln, adjsoln, frame, sub_calls, sub_u_dot, sub_phi_dot>>
thermal == <<spaceDim, formparam, varlist, e_num, ux_num, uy_num, uz_num,
             have_nsvel, wkset>>
linalg == <<ownedAndShared, GIDs, curroffsets, cellindices, LA_overlapped_graph>>
vars == <<settings, members, pc, call, tsLocals, nlLocals, history, lin, subgrid,
          sgfem, thermal, seed_active, linalg>>

\* the ranks of Comm, and the global DOF ids
Ranks == DOMAIN LA_owned
Dofs == UNION {LA_owned[r] : r \in Ranks}

\* isTransient, set by the constructor from solver_type
isTransient == solver_type = "transient"
\* finaltime = numsteps * deltat, in units of deltat
finaltime == numsteps
\* solvetimes, filled by the constructor: solvetimes[0] is "Initial Time"
solvetimes == [k \in 0..numsteps |-> initial_time + k]
\* the subgrid's final_time setting (0 for a steady-state solver)
final_time == IF solver_type = "steady-state" THEN 0 ELSE finaltime

NoPass == [caller |-> "none", timeiter |-> 0, NLiter |-> 0, useadjoint |-> FALSE,
           store_adjPrev |-> FALSE, is_final_time |-> FALSE, time |-> 0]
NoStep == [valid |-> FALSE, timeiter |-> 0, u |-> <<>>, u_dot |-> <<>>, time |-> 0]
NoSens == [valid |-> FALSE, before |-> <<>>, a2 |-> <<>>, dR |-> <<>>, dJ |-> <<>>,
           dRdP |-> <<>>, dJdP |-> <<>>]
\* the macro elements (usernum) attached to the subgrid model
Users == {1, 2}
NoFrame == [pc |-> "none", mode |-> "forward", time |-> 0, prev_time |-> 0,
            sgtime |-> 0, tstep |-> 0, own_u |-> 0, own_phi |-> 0,
            curr_fsol |-> <<>>, log |-> <<>>, returned |-> "nothing"]
\* a mesh without Dirichlet sides or points, strong conditions switched on
\* (the default)
NoDirichlet ==
  /\ usestrongDBCs = TRUE
  /\ side_info = [i \in Dofs |-> 0]
  /\ dbc_dofs = {}
\* a thermal module on which setVars was not called and no residual was
\* evaluated
NoWkset == [op |-> "none", isAdjoint |-> FALSE, in |-> <<>>, res0 |-> <<>>,
            res |-> <<>>, adjrhs |-> <<>>, flux |-> 0, badIndex |-> FALSE]
NoThermal ==
  /\ spaceDim = 2 /\ formparam = 1
  /\ varlist = <<>>
  /\ e_num = 0 /\ ux_num = 0 /\ uy_num = 0 /\ uz_num = 0
  /\ have_nsvel = FALSE
  /\ wkset = NoWkset
\* no objective is computed; the parameters are not seeded
NoObjective ==
  /\ compute_objective = FALSE
  /\ seed_active = FALSE
\* no cell is registered
NoMesh ==
  /\ ownedAndShared = <<>> /\ GIDs = <<>> /\ curroffsets = <<>>
  /\ cellindices = <<>> /\ LA_overlapped_graph = {}
NoBalance == [valid |-> FALSE, gmin |-> 0, gmax |-> 0, printed |-> FALSE]
NoLin == [called |-> FALSE, branch |-> "none", attempts |-> 0, condest |-> "none",
          athresh |-> "default", rthresh |-> "default", sad |-> FALSE,
          iterated |-> FALSE]

(***************************************************************************)
(* Helpers                                                                 *)
(***************************************************************************)
RECURSIVE SumOver(_, _)
\* sum of f[x] over the finite set S
SumOver(S, f) ==
  IF S = {} THEN 0
  ELSE LET x == CHOOSE y \in S : TRUE IN f[x] + SumOver(S \ {x}, f)

\* number of columns of a multi-vector (getNumVectors)
NumVectors(M) == Cardinality(DOMAIN M)
\* a multi-vector with n columns, all entries zero ("empty solution")
EmptySoln(n) == [c \in 0..(n - 1) |-> VZero(Dofs)]

\* LA_ownedAndShared of rank r: its owned DOFs and, as ghosts, the DOFs that
\* follow an owned one (a one-dimensional mesh whose element (i, i+1) lives
\* on the rank owning i).  Owned rows come first in the overlapped map.
LA_ownedAndShared(r) == LA_owned[r] \cup {i \in Dofs : i - 1 \in LA_owned[r]}

\* the partitions of the DOFs over the ranks that the model considers
Layouts == { <<{1}>>, <<{1, 2}>>, <<{1}, {2}>> }

\* number of active parameters and partition, for the sensitivity calls taken
\* on their own without discretized parameters: two parameters on one rank,
\* one parameter on each partition
SensConfigs == {<<2, <<{1}>>>>} \cup {<<1, l>> : l \in Layouts}

\* number of active parameters, number of discretized-parameter DOFs and
\* partition, for the sensitivity calls with discretized parameters
DiscConfigs == {<<0, 1, <<{1}, {2}>>>>, <<1, 1, <<{1}>>>>}

(***************************************************************************)
(* Initial state: the solver as its constructor leaves it.  is_final_time  *)
(* is not set by the constructor.                                          *)
(***************************************************************************)
InitSettings ==
  /\ solver_type \in {"steady-state", "transient", "none"}
  /\ numsteps \in 1..MaxSteps
  /\ solver_type # "transient" => numsteps = 1
  /\ time_order \in {1, 2}
  /\ NLtol \in NLtolChoices
  /\ MaxNLiter \in 1..MaxIterCap
  /\ verbosity \in Verbosities
  /\ initial_time \in InitialTimes
  /\ num_active_params \in RunParamCounts
  /\ numDiscParams = 0
  /\ multiscale \in BOOLEAN
  /\ LA_owned = <<{1}>>
  /\ my_cost = <<1>>
  /\ time_steps = 1 /\ sub_maxNLiter = 1
  /\ NoDirichlet

InitState ==
  /\ useadjoint = FALSE
  /\ current_time = initial_time
  /\ is_final_time \in BOOLEAN
  /\ store_adjPrev = FALSE
  /\ pc = "idle"
  /\ call = "none"
  /\ u = VZero(Dofs) /\ u_dot = VZero(Dofs)
  /\ phi = VZero(Dofs) /\ phi_dot = VZero(Dofs)
  /\ SolMat = EmptySoln(0) /\ L_soln = EmptySoln(0)
  /\ alpha = 0 /\ timeiter = 0 /\ gradient = <<>>
  /\ NLiter = 0 /\ maxiter = 0
  /\ NLerr_first = Rat(0, 1) /\ NLerr_scaled = Rat(0, 1)
  /\ res_over = 0 /\ res = 0
  /\ du_over = VZero(Dofs) /\ du = VZero(Dofs)
  /\ reported = FALSE
  /\ trace = <<>> /\ passes = 0 /\ solves = 0 /\ updates = 0
  /\ passLog = NoPass /\ stepLog = NoStep /\ sensLog = NoSens
  /\ balance = NoBalance
  /\ lin = NoLin
  /\ sub_is_final_time = FALSE
  /\ adjPrev \in (IF multiscale THEN {"zero", "nonzero"} ELSE {"zero"})
  /\ subPasses = {}
  /\ sub_u = 0 /\ sub_phi = 0
  /\ sub_u_dot = 0 /\ sub_phi_dot = 0
  /\ soln = [usernum \in Users |-> (initial_time :> 0)]
  /\ adjsoln = [usernum \in Users |-> (final_time :> 0)]
  /\ frame = [usernum \in Users |-> NoFrame]
  /\ sub_calls = 0

(***************************************************************************)
(* The load-balancing factor of transientSolver and finalizeMultiscale     *)
(***************************************************************************)
RECURSIVE reduceAll(_, _, _)
\* Teuchos::reduceAll of one value per rank, REDUCE_MIN or REDUCE_MAX
reduceAll(op, send, ranks) ==
  IF Cardinality(ranks) = 1
    THEN send[CHOOSE r \in ranks : TRUE]
    ELSE LET r == CHOOSE q \in ranks : TRUE
             rest == reduceAll(op, send, ranks \ {r})
         IN  IF op = "REDUCE_MIN"
               THEN (IF send[r] < rest THEN send[r] ELSE rest)
               ELSE (IF send[r] > rest THEN send[r] ELSE rest)

\* gmin and gmax when the factor gmax/gmin is formed: both reductions
\* receive into gmin, gmax keeps its initial 0.0
loadBalancingFactor ==
  LET gmin1 == reduceAll("REDUCE_MIN", my_cost, Ranks)
      gmin2 == reduceAll("REDUCE_MAX", my_cost, Ranks)
  IN  [valid |-> TRUE, gmin |-> gmin2, gmax |-> 0, printed |-> verbosity > 0]

(***************************************************************************)
(* SubGridFEM2: what a subgridSolver call does to is_final_time and        *)
(* adjPrev.  The subgrid nonlinear solver makes at least one pass          *)
(* (sub_maxNLiter >= 1, sub_NLtol > 0, the defaults).                      *)
(***************************************************************************)
\* subgridSolver: is_final_time from the macro time it is called with
subgridFinalTime(time) == time = final_time

\* subGridNonlinearSolver, one pass of a subgridSolver call made with the
\* given time: adjPrev is zeroed iff the solve is an adjoint one and
\* is_final_time is set
subgridPass(time, isAdjoint, isFinal) ==
  [time |-> time, isAdjoint |-> isAdjoint, reset |-> isAdjoint /\ isFinal]

\* the nonlinear passes one subgridSolver call makes: a transient adjoint
\* call first re-solves the forward substeps (isAdjoint = false), then runs
\* the adjoint substeps; every other call runs passes in the mode it was
\* called with
subgridSolverPasses(time, isAdjoint) ==
  LET isFinal == subgridFinalTime(time) IN
  IF isTransient /\ isAdjoint
    THEN {subgridPass(time, FALSE, isFinal), subgridPass(time, TRUE, isFinal)}
    ELSE {subgridPass(time, isAdjoint, isFinal)}

\* adjPrev after these passes
adjPrevAfter(ps) == IF \E q \in ps : q.reset THEN "zero" ELSE adjPrev

\* AssemblyManager::assembleJacRes as far as the subgrid is concerned: on a
\* multiscale mesh each macro element calls subgridSolver with the time and
\* the adjoint flag the assembly pass was given
assembleSubgrid(time, isAdjoint) ==
  IF multiscale
    THEN /\ sub_is_final_time' = subgridFinalTime(time)
         /\ subPasses' = subgridSolverPasses(time, isAdjoint)
         /\ adjPrev' = adjPrevAfter(subgridSolverPasses(time, isAdjoint))
    ELSE UNCHANGED subgrid

(***************************************************************************)
(* solver::nonlinearSolver                                                 *)
(***************************************************************************)
\* the value maxiter takes in adjoint mode
AdjointMaxIter == 2

\* the loop condition and the condition guarding the linear solve
AboveTol(scaled) == RatGT(scaled, NLtol)

\* variant of nlMaxIter: the adjoint cap of two iterations is forgotten
nlMaxIterNoAdjointCap == MaxNLiter

\* maxiter
nlMaxIter == IF useadjoint THEN AdjointMaxIter ELSE MaxNLiter

\* a steady forward solve is called with F_soln itself as u
uIsSolMat == call = "forwardModel" /\ solver_type = "steady-state"

\* phys->getDirichletValue: the value prescribed on the side of a DOF
getDirichletValue(i) == 2

\* setDirichlet (use_meas_as_dbcs off): the DOFs of the sides whose
\* side_info is 1 get the prescribed value, then the point-Dirichlet DOFs
\* get 0
setDirichlet(initial) ==
  [i \in Dofs |-> IF i \in dbc_dofs THEN 0
                  ELSE IF side_info[i] = 1 THEN getDirichletValue(i)
                  ELSE initial[i]]

\* entry: the statements before the while loop
nonlinearSolverEntry ==
  /\ pc = "nl_enter"
  /\ u' = IF usestrongDBCs THEN setDirichlet(u) ELSE u
  /\ SolMat' = IF uIsSolMat THEN [SolMat EXCEPT ![0] = u'] ELSE SolMat
  /\ NLiter' = 0
  /\ NLerr_first' = RatTimes(10, NLtol)
  /\ NLerr_scaled' = RatTimes(10, NLtol)
  /\ maxiter' = nlMaxIter
  /\ res_over' = 0 /\ res' = 0
  /\ du_over' = VZero(Dofs) /\ du' = VZero(Dofs)
  /\ reported' = FALSE
  /\ trace' = <<>> /\ passes' = 0 /\ solves' = 0 /\ updates' = 0
  /\ pc' = "nl_test"
  /\ UNCHANGED <<settings, members, call, u_dot, phi, phi_dot, L_soln, alpha,
                 timeiter, gradient, passLog, stepLog, sensLog, lin, subgrid,
                 balance, sgfem, thermal, seed_active, linalg>>

\* variant of nlLoopCondition: the test of the iteration count is dropped
nlLoopConditionNoCap == AboveTol(NLerr_scaled)

\* the while condition
nlLoopCondition == AboveTol(NLerr_scaled) /\ NLiter < maxiter

nlLoopTest ==
  /\ pc = "nl_test"
  /\ IF nlLoopCondition
       THEN pc' = "nl_assemble" /\ trace' = <<>>
       ELSE pc' = "nl_exit" /\ trace' = trace
  /\ UNCHANGED <<settings, members, call, tsLocals, nlLocals, reported,
                 passes, solves, updates, passLog, stepLog, sensLog, lin,
                 subgrid, balance, sgfem, thermal, seed_active, linalg>>

\* store_adjPrev for the pass of iteration NLiter
nlStoreAdjPrev == useadjoint /\ NLiter = 1

\* assembly of the residual and the Jacobian into the overlapped objects
nlAssemble ==
  /\ pc = "nl_assemble"
  /\ store_adjPrev' = nlStoreAdjPrev
  /\ \E r \in 0..MaxNorm : res_over' = r
  /\ passLog' = [caller |-> "newton", timeiter |-> timeiter, NLiter |-> NLiter,
                 useadjoint |-> useadjoint, store_adjPrev |-> store_adjPrev',
                 is_final_time |-> is_final_time, time |-> current_time]
  /\ assembleSubgrid(current_time, useadjoint)
  /\ trace' = Append(trace, "assemble")
  /\ passes' = passes + 1
  /\ pc' = "nl_export"
  /\ UNCHANGED <<settings, useadjoint, current_time, is_final_time, call,
                 tsLocals, NLiter, maxiter, NLerr_first, NLerr_scaled, res,
                 du_over, du, reported, solves, updates, stepLog, sensLog,
                 lin, balance, sgfem, thermal, seed_active, linalg>>

\* export (ADD) of the Jacobian and the residual to the owned map
nlExport ==
  /\ pc = "nl_export"
  /\ res' = res_over
  /\ trace' = Append(trace, "export")
  /\ pc' = "nl_norm"
  /\ UNCHANGED <<settings, members, call, tsLocals, NLiter, maxiter,
                 NLerr_first, NLerr_scaled, res_over, du_over, du, reported,
                 passes, solves, updates, passLog, stepLog, sensLog, lin,
                 subgrid, balance, sgfem, thermal, seed_active, linalg>>

\* variant of nlScaledNorm: iteration 0 always scales to 1, the test of the
\* first norm against 1.0e-14 is dropped
nlScaledNormNoFloor ==
  IF NLiter = 0 THEN Rat(1, 1) ELSE Rat(res, NLerr_first.num)

\* the scaled norm after the residual of iteration NLiter; level 0 is a
\* norm <= 1.0e-14
nlScaledNorm ==
  IF NLiter = 0
    THEN (IF res > 0 THEN Rat(1, 1) ELSE Rat(0, 1))
    ELSE Rat(res, NLerr_first.num)

\* variant of nlAfterNorm: the update is made without the linear solve
nlAfterNormSkipSolve(scaled) == IF AboveTol(scaled) THEN "nl_update" ELSE "nl_incr"

\* where the iteration goes after the norm check
nlAfterNorm(scaled) == IF AboveTol(scaled) THEN "nl_solve" ELSE "nl_incr"

nlNormCheck ==
  /\ pc = "nl_norm"
  /\ NLerr_first' = IF NLiter = 0 THEN Rat(res, 1) ELSE NLerr_first
  /\ NLerr_scaled' = nlScaledNorm
  /\ trace' = Append(trace, "norm")
  /\ pc' = nlAfterNorm(NLerr_scaled')
  /\ UNCHANGED <<settings, members, call, tsLocals, NLiter, maxiter,
                 res_over, res, du_over, du, reported, passes, solves,
                 updates, passLog, stepLog, sensLog, lin, subgrid, balance,
                 sgfem, thermal, seed_active, linalg>>

\* solver::linearSolver (Tpetra stack): preconditioner, then block GMRES;
\* the increment it leaves in du_over is an input of the model
linearSolver ==
  /\ pc = "nl_solve"
  /\ du_over' \in [Dofs -> DuVals]
  /\ trace' = Append(trace, "solve")
  /\ solves' = solves + 1
  /\ pc' = "nl_import"
  /\ UNCHANGED <<settings, members, call, tsLocals, NLiter, maxiter,
                 NLerr_first, NLerr_scaled, res_over, res, du, reported,
                 passes, updates, passLog, stepLog, sensLog, lin, subgrid,
                 balance, sgfem, thermal, seed_active, linalg>>

\* import of the increment into the overlapped vector du
nlImport ==
  /\ pc = "nl_import"
  /\ du' = du_over
  /\ trace' = Append(trace, "import")
  /\ pc' = "nl_update"
  /\ UNCHANGED <<settings, members, call, tsLocals, NLiter, maxiter,
                 NLerr_first, NLerr_scaled, res_over, res, du_over, reported,
                 passes, solves, updates, passLog, stepLog, sensLog, lin,
                 subgrid, balance, sgfem, thermal, seed_active, linalg>>

\* variant of nlDotUpdate: the increment is added unscaled
nlDotUpdatePlain(x_dot) == VUpdate(x_dot, 1, du)

\* the update of a time derivative: x_dot->update(alpha, *du, 1.0)
nlDotUpdate(x_dot) == VUpdate(x_dot, alpha, du)

\* update of the state: phi, phi_dot in adjoint mode, u, u_dot otherwise
nlUpdate ==
  /\ pc = "nl_update"
  /\ IF useadjoint
       THEN /\ phi' = VUpdate(phi, 1, du)
            /\ phi_dot' = nlDotUpdate(phi_dot)
            /\ UNCHANGED <<u, u_dot>>
       ELSE /\ u' = VUpdate(u, 1, du)
            /\ u_dot' = nlDotUpdate(u_dot)
            /\ UNCHANGED <<phi, phi_dot>>
  /\ SolMat' = IF uIsSolMat THEN [SolMat EXCEPT ![0] = u'] ELSE SolMat
  /\ trace' = Append(trace, "update")
  /\ updates' = updates + 1
  /\ pc' = "nl_incr"
  /\ UNCHANGED <<settings, members, call, L_soln, alpha, timeiter, gradient,
                 nlLocals, reported, passes, solves, passLog, stepLog,
                 sensLog, lin, subgrid, balance, sgfem, thermal, seed_active,
                 linalg>>

\* NLiter++
nlIncrement ==
  /\ pc = "nl_incr"
  /\ NLiter' = NLiter + 1
  /\ pc' = "nl_test"
  /\ UNCHANGED <<settings, members, call, tsLocals, maxiter, NLerr_first,
                 NLerr_scaled, res_over, res, du_over, du, history, lin,
                 subgrid, sgfem, thermal, seed_active, linalg>>

\* the failure message: rank 0, forward mode, verbosity above 1
nlReports ==
  /\ ~useadjoint
  /\ (NLiter > MaxNLiter \/ AboveTol(NLerr_scaled))
  /\ verbosity > 1

\* the statement the caller continues with; nonlinearSolver returns nothing
nlReturnTo == IF isTransient THEN "ts_store" ELSE "ss_post"

nlExit ==
  /\ pc = "nl_exit"
  /\ reported' = nlReports
  /\ pc' = nlReturnTo
  /\ UNCHANGED <<settings, members, call, tsLocals, nlLocals, trace, passes,
                 solves, updates, passLog, stepLog, sensLog, lin, subgrid,
                 balance, sgfem, thermal, seed_active, linalg>>

(***************************************************************************)
(* Properties of the nonlinear solver                                      *)
(***************************************************************************)
\* the statements inside nonlinearSolver, after its entry
NLPcs == {"nl_test", "nl_assemble", "nl_export", "nl_norm", "nl_solve",
          "nl_import", "nl_update", "nl_incr", "nl_exit"}

\* C1: nonlinearSolver is bounded: it never makes more than maxiter assembly
\* passes (maxiter is MaxNLiter in forward mode), the iteration count never
\* exceeds maxiter, and an iteration is started only while the scaled
\* residual norm is above NLtol and the count is below maxiter, so that no
\* iteration follows an assembled residual with scaled norm <= NLtol.
C1_BoundedPasses ==
  /\ passes <= maxiter
  /\ NLiter <= maxiter
  /\ pc \in NLPcs /\ ~useadjoint => maxiter = MaxNLiter
  /\ pc = "nl_assemble" => AboveTol(NLerr_scaled) /\ NLiter < maxiter
  /\ pc \in NLPcs \ {"nl_test"} => passes \in {NLiter, NLiter + 1}

\* a solve that stopped at the cap after several passes, residual still high
C1_Witness ==
  /\ pc = "nl_exit"
  /\ passes = maxiter /\ maxiter >= 2
  /\ AboveTol(NLerr_scaled)

\* C2 (the claim as stated): a nonlinear solve that returns at the iteration
\* cap with the scaled residual above NLtol has reported the failure, in
\* every mode and at every verbosity, and its step is not stored like a
\* converged one.
C2_FailureReported ==
  (pc \in {"ts_store", "ss_post"} /\ NLiter >= maxiter /\ AboveTol(NLerr_scaled))
    => reported

\* C4: when the residual of iteration 0 has norm <= 1.0e-14 the scaled norm
\* is 0, the solve makes exactly one assembly pass and no linear solve, and
\* no step of the loop changes u, u_dot, phi or phi_dot.
C4_TinyFirstResidual ==
  [][(pc \in NLPcs /\ passes' >= 1 /\ NLerr_first' = Rat(0, 1))
       => /\ NLerr_scaled' = Rat(0, 1)
          /\ passes' = 1 /\ solves' = 0 /\ updates' = 0
          /\ pc' \in {"nl_incr", "nl_test", "nl_exit", "ts_store", "ss_post"}
          /\ <<u, u_dot, phi, phi_dot>>' = <<u, u_dot, phi, phi_dot>>]_vars

\* a solve that returned after one pass on a residual of norm <= 1.0e-14
C4_Witness ==
  /\ pc = "nl_exit"
  /\ passes = 1 /\ solves = 0
  /\ NLerr_first = Rat(0, 1) /\ NLerr_scaled = Rat(0, 1)
  /\ ~RatGT(Rat(0, 1), NLtol)

\* C5: in adjoint mode nonlinearSolver makes at most two assembly passes and
\* at most two linear solves, whatever MaxNLiter and the residuals are.
C5_AdjointTwoIterations ==
  (useadjoint /\ pc \in NLPcs) => (passes <= 2 /\ solves <= 2 /\ NLiter <= 2)

\* an adjoint solve cut off after two passes although MaxNLiter allows more
C5_Witness ==
  /\ useadjoint /\ pc = "nl_exit"
  /\ MaxNLiter > 2
  /\ passes = 2 /\ solves = 2
  /\ AboveTol(NLerr_scaled)

\* the order of the events of one iteration
IterationOrder == <<"assemble", "export", "norm", "solve", "import", "update">>

\* C6: the events of every iteration are a prefix of assemble, export, norm
\* check, linear solve, import, update, in that order; a finished iteration
\* has either stopped after the norm check or run through the update; no
\* update is made without a linear solve.
C6_IterationOrder ==
  /\ Len(trace) <= Len(IterationOrder)
  /\ \A i \in 1..Len(trace) : trace[i] = IterationOrder[i]
  /\ pc = "nl_incr" => Len(trace) \in {3, 6}
  /\ updates <= solves /\ solves <= passes

\* an iteration that ran through all six events
C6_Witness ==
  /\ pc = "nl_incr"
  /\ trace = IterationOrder
  /\ updates >= 1

(***************************************************************************)
(* solver::computeObjective and solver::computeSensitivities(u, u_dot, a2, *)
(* gradient, alpha, beta): scalar (active) and discretized parameters      *)
(***************************************************************************)
Params == 0..(num_active_params - 1)
\* the global ids of the discretized-parameter DOFs (getNumParams(4) of them)
DiscParams == 0..(numDiscParams - 1)

\* the inputs of one sensitivity evaluation: per rank, the derivative of the
\* overlapped residual with respect to each active parameter (zero outside
\* the rank's overlapped rows; not read, and left zero here, when the cells
\* are multiscale), the derivative slots of the rank's cell objectives, the
\* rank's subgrid gradient, and for the discretized parameters the rank's
\* part of dR_i/dp_g (zero outside the rank's overlapped rows) and the
\* derivative slots of its cell objectives
SensInputs ==
  [dRover : {f \in [Ranks -> [Dofs -> [Params -> IF multiscale THEN {0} ELSE SensVals]]] :
               \A r \in Ranks : \A i \in Dofs \ LA_ownedAndShared(r) :
                 \A p \in Params : f[r][i][p] = 0},
   objdx : [Ranks -> [Params -> SensVals]],
   subgradient : [Ranks -> [Params -> IF multiscale THEN SensVals ELSE {0}]],
   dRdPover : {f \in [Ranks -> [DiscParams -> [Dofs -> SensVals]]] :
                 \A r \in Ranks : \A g \in DiscParams :
                   \A i \in Dofs \ LA_ownedAndShared(r) : f[r][g][i] = 0},
   objdp : [Ranks -> [DiscParams -> SensVals]]]

\* computeObjective: the derivative slots of the returned objective.  The
\* cell loop adds the cells' derivative slot 0 into dmGradient[0] and no
\* other active-parameter slot; the slots are then summed over the ranks.
computeObjectiveDx(objdx) ==
  [p \in Params |-> IF p = 0 THEN SumOver(Ranks, [r \in Ranks |-> objdx[r][0]]) ELSE 0]

\* res after the export (ADD) of res_over to the owned map
exportedRes(dRover) ==
  [i \in Dofs |-> [p \in Params |->
     SumOver({r \in Ranks : i \in LA_ownedAndShared(r)},
             [r \in Ranks |-> dRover[r][i][p]])]]

\* localsens[p] on rank r
localSens(r, a2, resv, subgradient, p) ==
  IF multiscale
    THEN -subgradient[r][p]
    ELSE -SumOver(LA_owned[r], [i \in Dofs |-> a2[i] * resv[i][p]])

\* what one call adds to gradient[p]: the reduction of localsens over the
\* ranks, plus the objective's derivative slot p
sensContribution(a2, in, p) ==
  SumOver(Ranks, [r \in Ranks |->
            localSens(r, a2, exportedRes(in.dRover), in.subgradient, p)])
    + computeObjectiveDx(in.objdx)[p]

\* computeObjective: the derivative slot of discretized-parameter DOF g
\* (slot num_active_params + g), summed over the ranks
computeObjectiveDp(objdp) ==
  [g \in DiscParams |-> SumOver(Ranks, [r \in Ranks |-> objdp[r][g]])]

\* assembleJacRes with compute_disc_sens set: the rows of J_over that rank r
\* assembles, row g holding the rank's part of dR_i/dp_g in column i
assembleParamJac(r, dRdPover) == dRdPover[r]

\* J after the export (ADD) of J_over to the owned parameter map
exportedParamJac(dRdPover) ==
  [g \in DiscParams |-> [i \in Dofs |->
     SumOver(Ranks, [r \in Ranks |-> assembleParamJac(r, dRdPover)[g][i]])]]

\* sens = J * a_owned, entry g
paramJacApply(J, a2, g) == SumOver(Dofs, [i \in Dofs |-> J[g][i] * a2[i]])

\* discLocalGradient[g] on rank r: the entry of sens, on the owner of g
\* (paramOwned; the first rank owns the parameter DOFs here)
discLocalGradient(r, a2, in, g) ==
  IF r = 1 THEN paramJacApply(exportedParamJac(in.dRdPover), a2, g) ELSE 0

\* what one call adds to gradient[num_active_params + g]
discContribution(a2, in, g) ==
  SumOver(Ranks, [r \in Ranks |-> discLocalGradient(r, a2, in, g)])
    + computeObjectiveDp(in.objdp)[g]

\* gradient after the discretized-parameter part of the call
discSensitivities(a2, grad, in) ==
  LET n == num_active_params + numDiscParams IN
  [k \in 1..(IF Len(grad) > n THEN Len(grad) ELSE n) |->
     IF k <= num_active_params \/ k > n THEN grad[k]
     ELSE IF k > Len(grad) THEN discContribution(a2, in, k - 1 - num_active_params)
     ELSE grad[k] + discContribution(a2, in, k - 1 - num_active_params)]

\* gradient after the call: push_back for a missing entry, += otherwise
computeSensitivities(a2, grad, in) ==
  [k \in 1..(IF Len(grad) > num_active_params THEN Len(grad) ELSE num_active_params) |->
     IF k > num_active_params THEN grad[k]
     ELSE IF k > Len(grad) THEN sensContribution(a2, in, k - 1)
     ELSE grad[k] + sensContribution(a2, in, k - 1)]

\* the record kept of a call
sensRecord(a2, grad, in) ==
  [valid |-> TRUE, before |-> grad, a2 |-> a2,
   dR |-> exportedRes(in.dRover),
   dJ |-> [p \in Params |-> SumOver(Ranks, [r \in Ranks |-> in.objdx[r][p]])],
   dRdP |-> exportedParamJac(in.dRdPover),
   dJdP |-> [g \in DiscParams |-> SumOver(Ranks, [r \in Ranks |-> in.objdp[r][g]])]]

\* the assembly pass of computeSensitivities: useadjoint is switched off
\* around it, store_adjPrev and is_final_time are passed as they stand
sensPassLog ==
  [caller |-> "sens", timeiter |-> timeiter, NLiter |-> NLiter,
   useadjoint |-> FALSE, store_adjPrev |-> store_adjPrev,
   is_final_time |-> is_final_time, time |-> current_time]

\* the whole call, on the state: the scalar part runs with active
\* parameters only, then the discretized-parameter part, whose assembly pass
\* gets useadjoint as it stands; nothing happens without parameters beyond
\* the evaluation of the objective
callComputeSensitivities(a2) ==
  IF num_active_params > 0 \/ numDiscParams > 0
    THEN \E in \in SensInputs :
           LET scalarPart == IF num_active_params > 0
                               THEN computeSensitivities(a2, gradient, in)
                               ELSE gradient
           IN  /\ gradient' = IF numDiscParams > 0
                                 THEN discSensitivities(a2, scalarPart, in)
                                 ELSE scalarPart
               /\ sensLog' = sensRecord(a2, gradient, in)
               /\ passLog' = IF numDiscParams > 0
                                THEN [sensPassLog EXCEPT !.caller = "sens_disc",
                                                         !.useadjoint = useadjoint]
                                ELSE sensPassLog
               /\ assembleSubgrid(current_time, numDiscParams > 0 /\ useadjoint)
    ELSE UNCHANGED <<gradient, sensLog, passLog, subgrid>>

(***************************************************************************)
(* solver::transientSolver                                                 *)
(***************************************************************************)
\* variant of tsAlpha: 1/deltat whatever the time order
tsAlphaFirstOrder == IF time_order \in {1, 2} THEN 2 ELSE 0

\* alpha, times 2*deltat: 1/deltat for time order 1, 3/(2 deltat) for 2
tsAlpha == IF time_order = 1 THEN 2 ELSE IF time_order = 2 THEN 3 ELSE 0

\* the statements before the loop over the time steps
transientEntry(initial, L, M) ==
  /\ u' = initial
  /\ u_dot' = VZero(Dofs) /\ phi' = VZero(Dofs) /\ phi_dot' = VZero(Dofs)
  /\ L_soln' = L /\ SolMat' = M
  /\ alpha' = tsAlpha
  /\ current_time' = IF useadjoint' THEN finaltime ELSE solvetimes[0]
  /\ is_final_time' = useadjoint'
  /\ timeiter' = 0
  /\ pc' = "ts_loop"

\* adjoint step: the forward column loaded into u
adjointColumn == NumVectors(L_soln) - timeiter - 1

\* adjoint step: u_dot, loaded for time order 1 only
adjointUdot ==
  IF time_order = 1
    THEN [i \in Dofs |-> alpha * L_soln[adjointColumn][i]
                           - alpha * L_soln[adjointColumn - 1][i]]
    ELSE u_dot

\* forward step: the seed of u_dot from u and the stored columns
forwardUdot ==
  IF time_order = 1 \/ timeiter = 0
    THEN [i \in Dofs |-> alpha * u[i] - alpha * SolMat[timeiter][i]]
    ELSE IF time_order = 2
      THEN [i \in Dofs |-> alpha * u[i]
                             - ((alpha * 4) \div 3) * SolMat[timeiter][i]
                             + (alpha \div 3) * SolMat[timeiter - 1][i]]
      ELSE u_dot

\* beginning of time step timeiter, up to the call of nonlinearSolver
timeStepBegin ==
  /\ pc = "ts_loop"
  /\ timeiter < numsteps
  /\ current_time' = IF useadjoint THEN current_time ELSE current_time + 1
  /\ IF useadjoint
       THEN /\ u' = L_soln[adjointColumn]
            /\ u_dot' = adjointUdot
            /\ phi_dot' = IF time_order = 1 THEN VZero(Dofs) ELSE phi_dot
       ELSE /\ u_dot' = forwardUdot
            /\ UNCHANGED <<u, phi_dot>>
  /\ stepLog' = [valid |-> TRUE, timeiter |-> timeiter, u |-> u', u_dot |-> u_dot',
                 time |-> current_time']
  /\ sensLog' = NoSens
  /\ balance' = loadBalancingFactor
  /\ pc' = "nl_enter"
  /\ UNCHANGED <<settings, useadjoint, is_final_time, store_adjPrev, call,
                 phi, SolMat, L_soln, alpha, timeiter, gradient, nlLocals,
                 reported, trace, passes, solves, updates, passLog, lin,
                 subgrid, sgfem, thermal, seed_active, linalg>>

\* the seeding computeObjective leaves: sacadoizeParams(true)
seedAfterObjective == TRUE

\* the seeding computeSensitivities(u,...) leaves: that of computeObjective
\* and of its scalar part, or sacadoizeParams(false) of the discretized part
seedAfterSensitivities == IF numDiscParams > 0 THEN FALSE ELSE seedAfterObjective

\* variant of seedAfterStep: the seeding is left as the step's gradient or
\* objective computation set it
seedAfterStepKept == seedAfterObjective

\* the seeding at the end of a time step that computed the gradient or the
\* objective: sacadoizeParams(false)
seedAfterStep == FALSE

\* variant of storedState: the adjoint is stored in forward mode too
storedStateAlwaysPhi == phi

\* the column of SolMat written after the solve of step timeiter
storedState == IF useadjoint THEN phi ELSE u

\* variant of finalTimeAfterStep: the flag is not cleared after the step
finalTimeKept == is_final_time

\* is_final_time after a step
finalTimeAfterStep == IF useadjoint THEN FALSE ELSE is_final_time

\* end of time step timeiter: store the state, accumulate the gradient
\* (adjoint), step the time back (adjoint)
timeStepEnd ==
  /\ pc = "ts_store"
  /\ SolMat' = [SolMat EXCEPT ![timeiter + 1] = storedState]
  /\ IF useadjoint
       THEN callComputeSensitivities(phi)
       ELSE UNCHANGED <<gradient, sensLog, passLog, subgrid>>
  /\ current_time' = IF useadjoint THEN current_time - 1 ELSE current_time
  /\ is_final_time' = finalTimeAfterStep
  /\ timeiter' = timeiter + 1
  /\ pc' = "ts_loop"
  /\ seed_active' = IF useadjoint \/ compute_objective THEN seedAfterStep
                                                          ELSE seed_active
  /\ UNCHANGED <<settings, useadjoint, store_adjPrev, call, u, u_dot, phi,
                 phi_dot, L_soln, alpha, nlLocals, reported, trace, passes,
                 solves, updates, stepLog, lin, balance, sgfem, thermal, linalg>>

\* the loop over the time steps is over: back in forwardModel/adjointModel,
\* which returns (adjointModel resets useadjoint)
transientReturn ==
  /\ pc = "ts_loop"
  /\ timeiter >= numsteps
  /\ useadjoint' = FALSE
  /\ pc' = "done"
  /\ UNCHANGED <<settings, current_time, is_final_time, store_adjPrev, call,
                 tsLocals, nlLocals, history, lin, subgrid, sgfem, thermal,
                 seed_active, linalg>>

(***************************************************************************)
(* solver::forwardModel and solver::adjointModel                           *)
(***************************************************************************)
\* number of columns of the solution matrix
numsols == IF isTransient THEN numsteps + 1 ELSE 1

\* F_soln / A_soln as allocated, with column 0 set to the initial state
\* where the code does so
withInitial(initial) == [c \in 0..(numsols - 1) |-> IF c = 0 THEN initial ELSE VZero(Dofs)]

\* the steady-state call nonlinearSolver(U, zero, PHI, zero, 0.0, 1.0)
steadyEntry(U, L, M) ==
  /\ u' = U
  /\ u_dot' = VZero(Dofs) /\ phi' = VZero(Dofs) /\ phi_dot' = VZero(Dofs)
  /\ L_soln' = L /\ SolMat' = M
  /\ alpha' = 0
  /\ timeiter' = 0
  /\ UNCHANGED <<current_time, is_final_time>>
  /\ pc' = "nl_enter"

\* a solver type that is neither steady-state nor transient: no solve
noSolve(L, M) ==
  /\ L_soln' = L /\ SolMat' = M
  /\ UNCHANGED <<current_time, is_final_time, u, u_dot, phi, phi_dot, alpha, timeiter>>
  /\ pc' = "done"

forwardModel ==
  /\ pc = "idle"
  /\ call' = "forwardModel"
  /\ useadjoint' = FALSE
  /\ gradient' = <<>>
  /\ \E initial \in [Dofs -> SolVals] :
       CASE solver_type = "transient" ->
              transientEntry(initial, EmptySoln(1), withInitial(initial))
         [] solver_type = "steady-state" ->
              steadyEntry(VZero(Dofs), EmptySoln(1), EmptySoln(numsols))
         [] OTHER -> noSolve(EmptySoln(1), EmptySoln(numsols))
  /\ seed_active' = FALSE
  /\ UNCHANGED <<settings, store_adjPrev, nlLocals, history, lin, subgrid,
                 sgfem, thermal, linalg>>

adjointModel ==
  /\ pc = "idle"
  /\ call' = "adjointModel"
  /\ useadjoint' = TRUE
  /\ gradient' = <<>>
  /\ \E initial \in [Dofs -> SolVals], F_soln \in [0..(numsols - 1) -> [Dofs -> SolVals]] :
       CASE solver_type = "transient" ->
              transientEntry(initial, F_soln, withInitial(initial))
         [] solver_type = "steady-state" ->
              steadyEntry(F_soln[0], F_soln, withInitial(initial))
         [] OTHER -> noSolve(F_soln, withInitial(initial))
  /\ seed_active' = FALSE
  /\ UNCHANGED <<settings, store_adjPrev, nlLocals, history, lin, subgrid,
                 sgfem, thermal, linalg>>

\* after the steady-state solve: forwardModel returns F_soln (which is u);
\* adjointModel copies the adjoint into A_soln, accumulates the gradient
\* with a2 = A_soln and resets useadjoint
steadyReturn ==
  /\ pc = "ss_post"
  /\ IF useadjoint
       THEN /\ SolMat' = [SolMat EXCEPT ![0] = phi]
            /\ callComputeSensitivities(phi)
       ELSE /\ SolMat' = [SolMat EXCEPT ![0] = u]
            /\ UNCHANGED <<gradient, sensLog, passLog, subgrid>>
  /\ useadjoint' = FALSE
  /\ pc' = "done"
  /\ seed_active' = IF useadjoint THEN seedAfterSensitivities
                  ELSE IF compute_objective THEN seedAfterObjective
                  ELSE seed_active
  /\ UNCHANGED <<settings, current_time, is_final_time, store_adjPrev, call,
                 u, u_dot, phi, phi_dot, L_soln, alpha, timeiter, nlLocals,
                 reported, trace, passes, solves, updates, stepLog, lin,
                 balance, sgfem, thermal, linalg>>

(***************************************************************************)
(* solver::linearSolver, Epetra stack: a call on its own, from the idle    *)
(* state.  condest, the estimate ConstructPreconditioner returns, is an    *)
(* input: "ok" in [1, 1e13], "high" above, "low" below.                    *)
(***************************************************************************)
\* ConstructPreconditioner calls of the domain-decomposition cascade
MaxPrecAttempts == 5

\* AZ_athresh and AZ_rthresh in force for the k-th ConstructPreconditioner
precThresholds(k) ==
  CASE k = 2 -> <<"1e-5", "0.0">>
    [] k = 3 -> <<"1e-5", "0.01">>
    [] k = 4 -> <<"1e-2", "0.0">>
    [] k = 5 -> <<"1e-2", "0.01">>
    [] OTHER -> <<"default", "default">>

\* the test after a ConstructPreconditioner call
condestOutOfRange(c) == c = "high" \/ c = "low"

\* the call, up to the choice of the branch
epetraLinearSolver ==
  /\ pc = "idle"
  /\ \E branch \in {"direct", "domdecomp", "ml", "none"} :
       /\ lin' = [NoLin EXCEPT !.called = TRUE, !.branch = branch]
       /\ pc' = CASE branch = "direct" -> "lin_done"
                  [] branch = "domdecomp" -> "lin_prec"
                  [] OTHER -> "lin_iterate"
  /\ UNCHANGED <<settings, members, call, tsLocals, nlLocals, history,
                 subgrid, sgfem, thermal, seed_active, linalg>>

\* where the cascade goes after the k-th ConstructPreconditioner returned c
precNext(k, c) ==
  IF k < MaxPrecAttempts /\ condestOutOfRange(c) THEN "lin_prec" ELSE "lin_iterate"

\* one ConstructPreconditioner call of the cascade and the test after it
epetraConstructPreconditioner ==
  /\ pc = "lin_prec"
  /\ \E c \in {"ok", "high", "low"} :
       /\ lin' = [lin EXCEPT !.attempts = lin.attempts + 1,
                             !.condest = c,
                             !.athresh = precThresholds(lin.attempts + 1)[1],
                             !.rthresh = precThresholds(lin.attempts + 1)[2],
                             !.sad = (lin.attempts + 1 = MaxPrecAttempts /\ c = "high")]
       /\ pc' = precNext(lin.attempts + 1, c)
  /\ UNCHANGED <<settings, members, call, tsLocals, nlLocals, history,
                 subgrid, sgfem, thermal, seed_active, linalg>>

\* linsolver.Iterate(liniter, lintol)
epetraIterate ==
  /\ pc = "lin_iterate"
  /\ lin' = [lin EXCEPT !.iterated = TRUE]
  /\ pc' = "lin_done"
  /\ UNCHANGED <<settings, members, call, tsLocals, nlLocals, history,
                 subgrid, sgfem, thermal, seed_active, linalg>>

\* the call returns; it has no result besides soln
epetraReturn ==
  /\ pc = "lin_done"
  /\ lin' = NoLin
  /\ pc' = "idle"
  /\ UNCHANGED <<settings, members, call, tsLocals, nlLocals, history,
                 subgrid, sgfem, thermal, seed_active, linalg>>

(***************************************************************************)
(* Properties of the time loop, of the linear solver and of the gradient   *)
(***************************************************************************)
\* C3 (the claim as stated): the Krylov iteration is never run with a
\* preconditioner whose quality estimate was out of range in every attempt
\* of the cascade; the solve is given up instead.
C3_NoIterateAfterFailedCascade ==
  lin.iterated =>
    ~(lin.branch = "domdecomp" /\ lin.attempts = MaxPrecAttempts
        /\ condestOutOfRange(lin.condest))

\* the seed of u_dot a forward step is to start from
C7_Seed ==
  IF time_order = 1 \/ timeiter = 0
    THEN [i \in Dofs |-> alpha * (u[i] - SolMat[timeiter][i])]
    ELSE [i \in Dofs |-> 3 * u[i] - 4 * SolMat[timeiter][i] + SolMat[timeiter - 1][i]]

\* C7: a forward transient run keeps a solution matrix of numsteps + 1
\* columns; column 0 is the initial condition; the end of step k writes the
\* u left by the step's nonlinear solve into column k + 1 and no step
\* changes a column of index <= k; each step seeds u_dot from the current u
\* and the stored columns before its solve.
C7_ForwardTrajectory ==
  [][(call' = "forwardModel" /\ isTransient)
       => /\ DOMAIN SolMat' = 0..numsteps
          /\ pc = "idle" => SolMat'[0] = u'
          /\ pc # "idle" => \A c \in 0..timeiter : SolMat'[c] = SolMat[c]
          /\ pc = "ts_store" => SolMat'[timeiter + 1] = u /\ timeiter' = timeiter + 1
          /\ (pc = "ts_loop" /\ pc' = "nl_enter") => u_dot' = C7_Seed /\ u' = u]_vars

\* a finished forward run of two steps whose states differ from step to step
C7_Witness ==
  /\ call = "forwardModel" /\ isTransient /\ pc = "done"
  /\ numsteps >= 2
  /\ SolMat[1] # SolMat[0] /\ SolMat[2] # SolMat[1]

\* the time-derivative stencil over the forward columns ending at column c
C8_Stencil(c) ==
  IF time_order = 1 \/ c = 1
    THEN [i \in Dofs |-> alpha * (L_soln[c][i] - L_soln[c - 1][i])]
    ELSE [i \in Dofs |-> 3 * L_soln[c][i] - 4 * L_soln[c - 1][i] + L_soln[c - 2][i]]

\* C8 (the claim as stated): adjoint step k of a transient run solves at the
\* forward state of column numsteps - k: u is that column and u_dot is the
\* time-derivative stencil over the forward columns ending there, for time
\* order 1 and for time order 2.
C8_AdjointLoadsState ==
  (call = "adjointModel" /\ isTransient /\ pc = "nl_enter")
    => /\ u = L_soln[numsteps - timeiter]
       /\ u_dot = C8_Stencil(numsteps - timeiter)

\* C9: in a transient run every assembly pass is given is_final_time = TRUE
\* if it belongs to step 0 of an adjoint run and FALSE otherwise (later
\* adjoint steps, every forward step); a subgrid pass resets adjPrev exactly
\* if it is an adjoint pass made at a time equal to the final time.
C9_FinalTimeFlag ==
  (isTransient /\ passLog.caller # "none")
    => /\ passLog.is_final_time = (call = "adjointModel" /\ passLog.timeiter = 0)
       /\ multiscale =>
            \A q \in subPasses : q.reset = (q.isAdjoint /\ q.time = final_time)

\* a pass of a later adjoint step, on a multiscale mesh, after the terminal
\* step has reset adjPrev
C9_Witness ==
  /\ call = "adjointModel" /\ isTransient /\ multiscale
  /\ passLog.caller = "newton" /\ passLog.timeiter = 1
  /\ ~passLog.is_final_time
  /\ \A q \in subPasses : ~q.reset
  /\ adjPrev = "zero"

\* gradient[p] before the logged call (0 for an entry the call appended)
C10_Before(p) == IF Len(sensLog.before) > p THEN sensLog.before[p + 1] ELSE 0

\* C10 (the claim as stated): without multiscale cells a call adds to
\* gradient[p], for every active parameter p, minus the sum over the ranks
\* and their owned rows i of a2[i] * dR[i]/dtheta_p, plus the objective's
\* derivative dJ/dtheta_p once.
C10_GradientContribution ==
  (sensLog.valid /\ ~multiscale)
    => \A p \in Params :
         gradient[p + 1] =
           C10_Before(p)
           - SumOver(Ranks, [r \in Ranks |->
                 SumOver(LA_owned[r], [i \in Dofs |-> sensLog.a2[i] * sensLog.dR[i][p]])])
           + sensLog.dJ[p]

C11_Before(g) ==
  IF Len(sensLog.before) > num_active_params + g
    THEN sensLog.before[num_active_params + g + 1] ELSE 0

\* C11 (the claim as stated): a call adds to the gradient entry of every
\* discretized-parameter DOF g minus the g-th entry of (dR/dp)^T a2, the
\* rows summed over the ranks, plus the objective's derivative dJ/dp_g once;
\* the contributions of the time steps add up in the entry.
C11_DiscGradientContribution ==
  sensLog.valid
    => \A g \in DiscParams :
         gradient[num_active_params + g + 1] =
           C11_Before(g)
           - SumOver(Dofs, [i \in Dofs |-> sensLog.dRdP[g][i] * sensLog.a2[i]])
           + sensLog.dJdP[g]

\* the part of C11 the code does satisfy: the entry grows by the call's
\* contribution, whatever its sign, so the steps' contributions add up
C11_StepsAddUp ==
  sensLog.valid
    => \A g \in DiscParams :
         gradient[num_active_params + g + 1] =
           C11_Before(g)
           + SumOver(Dofs, [i \in Dofs |-> sensLog.dRdP[g][i] * sensLog.a2[i]])
           + sensLog.dJdP[g]

(***************************************************************************)
(* The computeSensitivities calls of an adjoint time loop on their own:    *)
(* one call per time step, each with an arbitrary adjoint a2, over several *)
(* ranks and several active parameters.                                    *)
(***************************************************************************)
InitSens ==
  /\ solver_type = "transient"
  /\ numsteps \in 1..MaxSteps
  /\ time_order = 1
  /\ NLtol = Rat(1, 2)
  /\ MaxNLiter = 1
  /\ verbosity = 0
  /\ initial_time = 0
  /\ \/ \E c \in SensConfigs :
          num_active_params = c[1] /\ numDiscParams = 0 /\ LA_owned = c[2]
     \/ \E c \in DiscConfigs :
          num_active_params = c[1] /\ numDiscParams = c[2] /\ LA_owned = c[3]
  /\ multiscale \in BOOLEAN
  /\ my_cost = [r \in Ranks |-> 1]
  /\ time_steps = 1 /\ sub_maxNLiter = 1
  /\ NoDirichlet
  /\ InitState
  /\ NoThermal /\ NoObjective /\ NoMesh

\* adjointModel up to the time loop, the nonlinear solves left out
sensBegin ==
  /\ pc = "idle"
  /\ call' = "adjointModel"
  /\ useadjoint' = TRUE
  /\ gradient' = <<>>
  /\ current_time' = finaltime
  /\ is_final_time' = TRUE
  /\ timeiter' = 0
  /\ pc' = "sens_loop"
  /\ seed_active' = FALSE
  /\ UNCHANGED <<settings, store_adjPrev, u, u_dot, phi, phi_dot, SolMat,
                 L_soln, alpha, nlLocals, history, lin, subgrid, sgfem,
                 thermal, linalg>>

\* the end of one adjoint time step: computeSensitivities with the step's
\* adjoint, then the step back in time
sensStep ==
  /\ pc = "sens_loop"
  /\ timeiter < numsteps
  /\ \E a2 \in [Dofs -> SolVals] :
       /\ phi' = a2
       /\ callComputeSensitivities(a2)
  /\ current_time' = current_time - 1
  /\ is_final_time' = FALSE
  /\ timeiter' = timeiter + 1
  /\ seed_active' = seedAfterStep
  /\ UNCHANGED <<settings, useadjoint, store_adjPrev, pc, call, u, u_dot,
                 phi_dot, SolMat, L_soln, alpha, nlLocals, reported, trace,
                 passes, solves, updates, stepLog, lin, balance, sgfem,
                 thermal, linalg>>

NextSens ==
  \/ sensBegin
  \/ sensStep

SpecSens == InitSens /\ [][NextSens]_vars

(***************************************************************************)
(* The sweeps over a stored forward trajectory GF (kept in L_soln) and a   *)
(* stored adjoint trajectory GA (kept in SolMat):                          *)
(* solver::computeSensitivities(GF_soln, GA_soln),                         *)
(* solver::computeDiscretizedSensitivities and solver::computeError.       *)
(* gradient holds the running sums (localsens, totalsens, localerror).     *)
(***************************************************************************)
PostCalls == {"computeSensitivities", "computeDiscretizedSensitivities", "computeError"}

\* number of passes of the loop over the time steps
postSteps(f) ==
  IF f = "computeError" THEN numsteps ELSE IF isTransient THEN numsteps ELSE 1

\* the column of GF loaded into u in pass timeiter
postForwardColumn(f) ==
  IF f = "computeError" \/ isTransient THEN timeiter + 1 ELSE timeiter

\* the column of GA loaded into a2 in pass timeiter
postAdjointColumn(f) ==
  IF f = "computeError" \/ isTransient
    THEN postSteps(f) - timeiter
    ELSE postSteps(f) - timeiter - 1

\* a column read from a solution matrix; a read past the last column yields
\* whatever the memory holds
columnRead(M, c) == IF c \in DOMAIN M THEN {M[c]} ELSE [Dofs -> SolVals]

\* the running sums after the pass with adjoint a2, the assembly giving the
\* derivatives in and the residual res0
postAccumulate(f, a2, in, res0) ==
  CASE f = "computeSensitivities" ->
         [k \in 1..num_active_params |->
            gradient[k] - SumOver(Ranks, [r \in Ranks |->
              SumOver(LA_owned[r], [i \in Dofs |->
                a2[i] * exportedRes(in.dRover)[i][k - 1]])])]
    [] f = "computeDiscretizedSensitivities" ->
         [k \in 1..numDiscParams |->
            gradient[k] + paramJacApply(exportedParamJac(in.dRdPover), a2, k - 1)]
    [] OTHER ->
         <<gradient[1] + SumOver(Ranks, [r \in Ranks |->
              SumOver(LA_owned[r], [i \in Dofs |-> a2[i] * res0[r][i]])])>>

\* the entry of one of the three functions, up to its loop: alpha is
\* 1/deltat in computeError on a transient run and 0.0 otherwise, the running
\* sums start at zero
postBegin ==
  /\ pc = "idle"
  /\ \E f \in PostCalls, GF \in [0..(numsols - 1) -> [Dofs -> SolVals]],
        GA \in [0..(numsols - 1) -> [Dofs -> SolVals]] :
       /\ call' = f
       /\ L_soln' = GF /\ SolMat' = GA
       /\ alpha' = IF f = "computeError" /\ isTransient THEN 2 ELSE 0
       /\ gradient' =
            CASE f = "computeSensitivities" -> [k \in 1..num_active_params |-> 0]
              [] f = "computeDiscretizedSensitivities" -> [k \in 1..numDiscParams |-> 0]
              [] OTHER -> <<0>>
       /\ current_time' = IF f = "computeError" THEN 0 ELSE current_time
  /\ timeiter' = 0
  /\ pc' = "post_loop"
  /\ seed_active' = (call' = "computeSensitivities")
  /\ UNCHANGED <<settings, useadjoint, is_final_time, store_adjPrev, u,
                 u_dot, phi, phi_dot, nlLocals, history, lin, subgrid, sgfem,
                 thermal, linalg>>

\* one pass of the loop: load u, u_dot and a2 from the columns, assemble,
\* add to the running sums
postStep ==
  /\ pc = "post_loop"
  /\ timeiter < postSteps(call)
  /\ \E uu \in columnRead(L_soln, postForwardColumn(call)),
        prev \in columnRead(L_soln, postForwardColumn(call) - 1),
        a2 \in columnRead(SolMat, postAdjointColumn(call)),
        in \in SensInputs, res0 \in [Ranks -> [Dofs -> SensVals]] :
       /\ u' = uu
       /\ u_dot' = IF call = "computeError" \/ isTransient
                      THEN [i \in Dofs |-> alpha * (uu[i] - prev[i])]
                      ELSE u_dot
       /\ phi' = a2
       /\ gradient' = postAccumulate(call, a2, in, res0)
  /\ current_time' = IF call = "computeError"
                        THEN current_time + (IF isTransient THEN 1 ELSE 0)
                        ELSE solvetimes[postForwardColumn(call)]
  /\ stepLog' = [valid |-> TRUE, timeiter |-> timeiter, u |-> u', u_dot |-> u_dot',
                 time |-> current_time', forward |-> postForwardColumn(call),
                 adjoint |-> postAdjointColumn(call)]
  /\ passLog' = [sensPassLog EXCEPT !.caller = call, !.time = current_time']
  /\ assembleSubgrid(current_time', useadjoint)
  /\ timeiter' = timeiter + 1
  /\ UNCHANGED <<settings, useadjoint, is_final_time, store_adjPrev, pc,
                 call, phi_dot, SolMat, L_soln, alpha, nlLocals, reported,
                 trace, passes, solves, updates, sensLog, lin, balance,
                 sgfem, thermal, seed_active, linalg>>

\* the loop is over: the sums are reduced over the ranks and returned
postReturn ==
  /\ pc = "post_loop"
  /\ timeiter >= postSteps(call)
  /\ pc' = "done"
  /\ UNCHANGED <<settings, useadjoint, current_time, is_final_time,
                 store_adjPrev, call, tsLocals, nlLocals, history, lin,
                 subgrid, sgfem, thermal, seed_active, linalg>>

InitPost ==
  /\ solver_type \in {"steady-state", "transient"}
  /\ numsteps \in 1..MaxSteps
  /\ ~isTransient => numsteps = 1
  /\ time_order = 1
  /\ NLtol = Rat(1, 2)
  /\ MaxNLiter = 1
  /\ verbosity = 0
  /\ initial_time = 0
  /\ num_active_params = 1 /\ numDiscParams = 1 /\ LA_owned = <<{1}>>
  /\ multiscale = FALSE
  /\ my_cost = <<1>>
  /\ time_steps = 1 /\ sub_maxNLiter = 1
  /\ NoDirichlet
  /\ InitState
  /\ NoThermal /\ NoObjective /\ NoMesh

NextPost ==
  \/ postBegin
  \/ postStep
  \/ postReturn

SpecPost == InitPost /\ [][NextPost]_vars

\* C12 (the claim as stated): each of the three sweeps pairs forward column
\* j with adjoint column N + 1 - j on a transient run of N steps, j in 1..N,
\* and forward column 0 with adjoint column 0 in steady mode; every column
\* read is a column of the matrix.
C12_ReversePairing ==
  (call \in PostCalls /\ stepLog.valid)
    => /\ stepLog.forward \in DOMAIN L_soln
       /\ stepLog.adjoint \in DOMAIN SolMat
       /\ IF isTransient
            THEN /\ stepLog.forward \in 1..numsteps
                 /\ stepLog.adjoint = numsteps + 1 - stepLog.forward
            ELSE stepLog.forward = 0 /\ stepLog.adjoint = 0

(***************************************************************************)
(* The load-balancing reports on their own, over several ranks and costs:  *)
(* finalizeMultiscale once after setup, then one report per time step.     *)
(***************************************************************************)
InitBalance ==
  /\ solver_type = "transient"
  /\ numsteps \in 1..MaxSteps
  /\ time_order = 1
  /\ NLtol = Rat(1, 2)
  /\ MaxNLiter = 1
  /\ verbosity \in Verbosities
  /\ initial_time = 0
  /\ num_active_params = 0 /\ numDiscParams = 0
  /\ LA_owned \in Layouts
  /\ multiscale = TRUE
  /\ my_cost \in [Ranks -> CostVals]
  /\ time_steps = 1 /\ sub_maxNLiter = 1
  /\ NoDirichlet
  /\ InitState
  /\ NoThermal /\ NoObjective /\ NoMesh

\* solver::finalizeMultiscale with subgrid models present
finalizeMultiscale ==
  /\ pc = "idle"
  /\ balance' = loadBalancingFactor
  /\ pc' = "finalized"
  /\ UNCHANGED <<settings, members, call, tsLocals, nlLocals, reported,
                 trace, passes, solves, updates, passLog, stepLog, sensLog,
                 lin, subgrid, sgfem, thermal, seed_active, linalg>>

\* the beginning of a time step of transientSolver: the cost update and the
\* report, the solve left out
balanceStep ==
  /\ pc = "finalized"
  /\ timeiter < numsteps
  /\ balance' = loadBalancingFactor
  /\ timeiter' = timeiter + 1
  /\ current_time' = current_time + 1
  /\ UNCHANGED <<settings, useadjoint, is_final_time, store_adjPrev, pc,
                 call, u, u_dot, phi, phi_dot, SolMat, L_soln, alpha,
                 gradient, nlLocals, reported, trace, passes, solves,
                 updates, passLog, stepLog, sensLog, lin, subgrid, sgfem,
                 thermal, seed_active, linalg>>

NextBalance ==
  \/ finalizeMultiscale
  \/ balanceStep

SpecBalance == InitBalance /\ [][NextBalance]_vars

\* C13 (the claim as stated): the factor printed by a time step of
\* transientSolver and by finalizeMultiscale, gmax/gmin, equals the largest
\* cost of a rank divided by the smallest, for positive costs.
C13_LoadBalancingFactor ==
  (balance.valid /\ balance.printed)
    => balance.gmax * reduceAll("REDUCE_MIN", my_cost, Ranks)
         = reduceAll("REDUCE_MAX", my_cost, Ranks) * balance.gmin

(***************************************************************************)
(* SubGridFEM2::subgridSolver step by step, for the macro elements of one  *)
(* subgrid model.  A subgrid state is one number; macro times are in units *)
(* of macro_deltat, subgrid times (sgtime) in units of                     *)
(* macro_deltat/time_steps, alpha in units of 1/macro_deltat.              *)
(***************************************************************************)
\* largest "numSteps" of the subgrid (time_steps)
MaxSubSteps == 2
\* largest "MaxNLiter" of the subgrid (sub_maxNLiter)
MaxSubIter == 2
\* number of subgridSolver calls followed
MaxSubCalls == 2

SubModes == {"forward", "adjoint", "compute_sens"}

\* SolutionStorage: a trajectory maps times to vectors
store(track, time, vec) ==
  [t \in DOMAIN track \cup {time} |-> IF t = time THEN vec ELSE track[t]]

\* SolutionStorage::extract: the vector stored for the time, if any
extract(track, time, vec) == IF time \in DOMAIN track THEN track[time] ELSE vec

\* SolutionStorage::extractPrevious: the last vector stored for an earlier
\* time, and that time
extractPrevious(track, time, vec) ==
  LET earlier == {t \in DOMAIN track : t < time} IN
  IF earlier = {} THEN [vec |-> vec, time |-> 0]
  ELSE LET t == CHOOSE x \in earlier : \A y \in earlier : y <= x
       IN  [vec |-> track[t], time |-> t]

\* SolutionStorage::extractLast: the vector of the largest time, and that time
extractLast(track, vec) ==
  LET t == CHOOSE x \in DOMAIN track : \A y \in DOMAIN track : y <= x
  IN  [vec |-> track[t], time |-> t]

\* SolutionStorage::extractNext: the first vector stored for a later time
extractNext(track, time, vec) ==
  LET later == {t \in DOMAIN track : t > time} IN
  IF later = {} THEN vec
  ELSE track[CHOOSE x \in later : \A y \in later : x <= y]

\* "Set the initial conditions": what the call loads into the members u and
\* phi, and prev_time
subgridInitial(usernum, mode, time) ==
  LET fwd == IF isTransient THEN extractPrevious(soln[usernum], time, sub_u)
             ELSE IF mode = "adjoint"
               THEN [vec |-> extract(soln[usernum], time, sub_u), time |-> 0]
               ELSE extractLast(soln[usernum], sub_u)
  IN  [u |-> fwd.vec, prev_time |-> fwd.time,
       phi |-> CASE mode = "adjoint" -> extract(adjsoln[usernum], time, sub_phi)
                 [] mode = "compute_sens" -> extractNext(adjsoln[usernum], time, sub_phi)
                 [] OTHER -> sub_phi]

\* subGridNonlinearSolver: the outcomes of one call, as the number of passes
\* of its loop, whether the last pass found the scaled residual within
\* sub_NLtol, and the sum of the updates du; a first pass within the
\* tolerance makes no update; the function returns nothing
subGridNonlinearSolver ==
  {o \in [iter : 1..sub_maxNLiter, converged : BOOLEAN, du : DuVals] :
     /\ ~o.converged => o.iter = sub_maxNLiter
     /\ (o.converged /\ o.iter = 1) => o.du = 0}

\* what follows a sub-solve whose result enters the macro residual
solveSensFlux == <<"subGridNonlinearSolver", "computeSubGridSolnSens", "updateFlux">>

\* alpha of the sub-solves, times macro_deltat: time_steps/macro_deltat in a
\* transient call, the initial 0.0 otherwise
subAlpha == IF isTransient THEN time_steps ELSE 0

\* the entry of the log of a call for one sub-solve; at is the forward state
\* passed to the solve
subLogEntry(sgtime, isAdjoint, start, own, o, then, fwt, at) ==
  [sgtime |-> sgtime, alpha |-> subAlpha,
   isAdjoint |-> isAdjoint, start |-> start, own |-> own, result |-> start + o.du,
   converged |-> o.converged, then |-> then, fwt |-> fwt, at |-> at]

\* the call up to its loops: is_final_time, the initial conditions; the
\* frames of the calls that have returned are gone
subgridSolverEnter(concurrent) ==
  /\ sub_calls < MaxSubCalls
  /\ \E usernum \in Users, mode \in SubModes,
        time \in (IF isTransient THEN 1..numsteps ELSE {0}) :
       /\ frame[usernum].pc \in {"none", "done"}
       /\ concurrent \/ \A other \in Users : frame[other].pc \in {"none", "done"}
       /\ LET init == subgridInitial(usernum, mode, time) IN
            /\ sub_u' = init.u
            /\ sub_phi' = init.phi
            /\ frame' = [other \in Users |->
                 IF other = usernum
                   THEN [pc |-> IF isTransient /\ mode = "adjoint"
                                  THEN "resolve" ELSE "loop",
                         mode |-> mode, time |-> time, prev_time |-> init.prev_time,
                         sgtime |-> init.prev_time * time_steps, tstep |-> 0,
                         own_u |-> init.u, own_phi |-> init.phi, curr_fsol |-> <<>>,
                         log |-> <<>>, returned |-> "nothing"]
                   ELSE IF frame[other].pc = "done" THEN NoFrame ELSE frame[other]]
       /\ sub_is_final_time' = subgridFinalTime(time)
  /\ sub_calls' = sub_calls + 1
  /\ UNCHANGED <<settings, members, pc, call, tsLocals, nlLocals, history,
                 lin, adjPrev, subPasses, soln, adjsoln, sub_u_dot, sub_phi_dot, thermal,
                 seed_active, linalg>>

\* variant of subgridLoopCondition: one substep too many
subgridLoopConditionInclusive(tstep) == tstep <= time_steps

\* the test of the loops over the substeps
subgridLoopCondition(tstep) == tstep < time_steps

\* transient, forward or compute_sens: one substep
subgridTimeStep ==
  \E usernum \in Users, o \in subGridNonlinearSolver :
    LET f == frame[usernum] IN
    /\ f.pc = "loop" /\ isTransient
    /\ subgridLoopCondition(f.tstep)
    /\ sub_u' = sub_u + o.du
    /\ sub_u_dot' = 0 + subAlpha * o.du
    /\ frame' = [frame EXCEPT ![usernum] =
         [f EXCEPT !.sgtime = f.sgtime + 1, !.tstep = f.tstep + 1,
                   !.own_u = f.own_u + o.du,
                   !.log = Append(f.log,
                     subLogEntry(f.sgtime + 1, FALSE, sub_u, f.own_u, o,
                                 solveSensFlux, Rat(1, time_steps), sub_u))]]
    /\ UNCHANGED <<settings, members, pc, call, tsLocals, nlLocals, history,
                   lin, subgrid, sub_phi, soln, adjsoln, sub_calls,
                   sub_phi_dot, thermal, seed_active, linalg>>

\* transient adjoint, first loop: the forward problem of one substep is
\* solved again on a copy recu of u
subgridResolveStep ==
  \E usernum \in Users, o \in subGridNonlinearSolver :
    LET f == frame[usernum] IN
    /\ f.pc = "resolve"
    /\ frame' = [frame EXCEPT ![usernum] =
         [f EXCEPT !.sgtime = f.sgtime + 1,
                   !.tstep = IF subgridLoopCondition(f.tstep + 1) THEN f.tstep + 1 ELSE 0,
                   !.pc = IF subgridLoopCondition(f.tstep + 1) THEN "resolve" ELSE "sweep",
                   !.curr_fsol = Append(f.curr_fsol, sub_u + o.du),
                   !.log = Append(f.log,
                     subLogEntry(f.sgtime + 1, FALSE, sub_u, f.own_u, o,
                                 <<"subGridNonlinearSolver">>, Rat(0, 1), sub_u))]]
    /\ UNCHANGED <<settings, members, pc, call, tsLocals, nlLocals, history,
                   lin, subgrid, sub_u, sub_phi, soln, adjsoln, sub_calls,
                   sub_u_dot, sub_phi_dot, thermal, seed_active, linalg>>

\* transient adjoint, second loop: the adjoint of one substep, backwards
subgridAdjointStep ==
  \E usernum \in Users, o \in subGridNonlinearSolver :
    LET f == frame[usernum]
        tindex == time_steps - f.tstep
    IN
    /\ f.pc = "sweep"
    /\ sub_phi' = sub_phi + o.du
    /\ sub_phi_dot' = 0 + subAlpha * o.du
    /\ adjPrev' = IF sub_is_final_time THEN "zero" ELSE adjPrev
    /\ frame' = [frame EXCEPT ![usernum] =
         [f EXCEPT !.sgtime = f.prev_time * time_steps + tindex,
                   !.tstep = f.tstep + 1,
                   !.pc = IF subgridLoopCondition(f.tstep + 1) THEN "sweep" ELSE "finish",
                   !.own_phi = f.own_phi + o.du,
                   !.log = Append(f.log,
                     subLogEntry(f.prev_time * time_steps + tindex, TRUE, sub_phi,
                                 f.own_phi, o, solveSensFlux, Rat(1, time_steps),
                                 f.curr_fsol[tindex]))]]
    /\ UNCHANGED <<settings, members, pc, call, tsLocals, nlLocals, history,
                   lin, sub_is_final_time, subPasses, sub_u, soln, adjsoln,
                   sub_calls, sub_u_dot, thermal, seed_active, linalg>>

\* steady: the one solve, at current_time
subgridSteadySolve ==
  \E usernum \in Users, o \in subGridNonlinearSolver :
    LET f == frame[usernum]
        isAdjoint == f.mode = "adjoint"
    IN
    /\ f.pc = "loop" /\ ~isTransient
    /\ sub_u' = IF isAdjoint THEN sub_u ELSE sub_u + o.du
    /\ sub_phi' = IF isAdjoint THEN sub_phi + o.du ELSE sub_phi
    /\ sub_u_dot' = IF isAdjoint THEN sub_u_dot ELSE sub_u_dot + subAlpha * o.du
    /\ sub_phi_dot' = IF isAdjoint THEN sub_phi_dot + subAlpha * o.du ELSE sub_phi_dot
    /\ adjPrev' = IF isAdjoint /\ sub_is_final_time THEN "zero" ELSE adjPrev
    /\ frame' = [frame EXCEPT ![usernum] =
         [f EXCEPT !.sgtime = f.time * time_steps, !.pc = "finish",
                   !.own_u = sub_u' - sub_u + f.own_u,
                   !.own_phi = sub_phi' - sub_phi + f.own_phi,
                   !.log = Append(f.log,
                     subLogEntry(f.time * time_steps, isAdjoint,
                                 IF isAdjoint THEN sub_phi ELSE sub_u,
                                 IF isAdjoint THEN f.own_phi ELSE f.own_u,
                                 o, solveSensFlux, Rat(1, 1), sub_u))]]
    /\ UNCHANGED <<settings, members, pc, call, tsLocals, nlLocals, history,
                   lin, sub_is_final_time, subPasses, soln, adjsoln,
                   sub_calls, thermal, seed_active, linalg>>

\* variant of storedTrack: a compute_sens call stores its state as well
storedTrackAlways(mode) == IF mode = "adjoint" THEN "adjsoln" ELSE "soln"

\* the trajectory the call stores into at its end
storedTrack(mode) ==
  CASE mode = "adjoint" -> "adjsoln"
    [] mode = "compute_sens" -> "none"
    [] OTHER -> "soln"

\* the end of the call: the state is stored for current_time; the function
\* returns nothing
subgridSolverReturn ==
  \E usernum \in Users :
    LET f == frame[usernum] IN
    /\ \/ f.pc = "finish"
       \/ f.pc = "loop" /\ isTransient /\ ~subgridLoopCondition(f.tstep)
    /\ soln' = IF storedTrack(f.mode) = "soln"
                 THEN [soln EXCEPT ![usernum] = store(@, f.time, sub_u)] ELSE soln
    /\ adjsoln' = IF storedTrack(f.mode) = "adjsoln"
                    THEN [adjsoln EXCEPT ![usernum] = store(@, f.time, sub_phi)]
                    ELSE adjsoln
    /\ frame' = [frame EXCEPT ![usernum] = [f EXCEPT !.pc = "done"]]
    /\ UNCHANGED <<settings, members, pc, call, tsLocals, nlLocals, history,
                   lin, subgrid, sub_u, sub_phi, sub_calls, sub_u_dot,
                   sub_phi_dot, thermal, seed_active, linalg>>

InitSubgrid ==
  /\ solver_type \in {"steady-state", "transient"}
  /\ numsteps \in 1..MaxSteps
  /\ ~isTransient => numsteps = 1
  /\ time_order = 1
  /\ NLtol = Rat(1, 2)
  /\ MaxNLiter = 1
  /\ verbosity = 0
  /\ initial_time = 0
  /\ num_active_params = 1 /\ numDiscParams = 0 /\ LA_owned = <<{1}>>
  /\ multiscale = TRUE
  /\ my_cost = <<1>>
  /\ time_steps \in 1..MaxSubSteps
  /\ sub_maxNLiter \in 1..MaxSubIter
  /\ NoDirichlet
  /\ InitState
  /\ NoThermal /\ NoObjective /\ NoMesh
  /\ is_final_time = FALSE

\* the calls one after the other, as the macro assembly makes them
NextSubgrid ==
  \/ subgridSolverEnter(FALSE)
  \/ subgridTimeStep
  \/ subgridResolveStep
  \/ subgridAdjointStep
  \/ subgridSteadySolve
  \/ subgridSolverReturn

SpecSubgrid == InitSubgrid /\ [][NextSubgrid]_vars

\* the calls of different macro elements with their steps interleaved
NextSubgridInterleaved ==
  \/ subgridSolverEnter(TRUE)
  \/ subgridTimeStep
  \/ subgridResolveStep
  \/ subgridAdjointStep
  \/ subgridSteadySolve
  \/ subgridSolverReturn

\* one macro time step, one pass of the subgrid Newton loop
InitSubgridInterleaved ==
  /\ InitSubgrid
  /\ numsteps = 1
  /\ sub_maxNLiter = 1

SpecSubgridInterleaved == InitSubgridInterleaved /\ [][NextSubgridInterleaved]_vars

\* C14: a transient forward call makes exactly time_steps sub-solves, one
\* after the other, the j-th at time prev_time + j * macro_deltat/time_steps
\* with alpha = time_steps/macro_deltat and from the state the one before
\* left; each is followed by the solution sensitivities and a flux update of
\* weight 1/time_steps, the weights adding up to 1; the state stored for the
\* macro time is the state after the last substep.
C14_ForwardSubsteps ==
  \A usernum \in Users :
    LET f == frame[usernum] IN
    (isTransient /\ f.pc = "done" /\ f.mode = "forward")
      => /\ Len(f.log) = time_steps
         /\ \A j \in 1..Len(f.log) :
              /\ f.log[j].sgtime = f.prev_time * time_steps + j
              /\ f.log[j].alpha = time_steps
              /\ ~f.log[j].isAdjoint
              /\ f.log[j].then = solveSensFlux
              /\ f.log[j].fwt = Rat(1, time_steps)
              /\ j > 1 => f.log[j].start = f.log[j - 1].result
         /\ Len(f.log) * f.log[1].fwt.num = f.log[1].fwt.den
         /\ soln[usernum][f.time] = f.log[Len(f.log)].result

C14_Witness ==
  \E usernum \in Users :
    /\ isTransient /\ time_steps = MaxSubSteps
    /\ frame[usernum].pc = "done" /\ frame[usernum].mode = "forward"
    /\ frame[usernum].prev_time = 0 /\ frame[usernum].time = 1
    /\ soln[usernum][1] = MaxSubSteps

\* C15 (the claim as stated): the calls of different macro elements share no
\* state, so with their steps interleaved every sub-solve of a call still
\* starts from the state the call itself loaded or left.
C15_NoSharedState ==
  \A usernum \in Users :
    \A j \in 1..Len(frame[usernum].log) :
      frame[usernum].log[j].start = frame[usernum].log[j].own

\* C16 (the claim as stated): a call one of whose sub-solves ended without
\* reaching the tolerance returns a report of non-convergence.
C16_NonConvergenceReported ==
  \A usernum \in Users :
    LET f == frame[usernum] IN
    (f.pc = "done" /\ \E j \in 1..Len(f.log) : ~f.log[j].converged)
      => f.returned = "non-convergence"

\* C17: no step of an adjoint or compute_sens call changes the forward
\* trajectory of any macro element, and a forward call changes that of its
\* macro element only at its return and only in the entry of its macro time.
C17_ForwardTrajectoryAppendOnly ==
  [][\A usernum \in Users :
       \/ soln'[usernum] = soln[usernum]
       \/ /\ frame[usernum].mode = "forward"
          /\ frame[usernum].pc # "done" /\ frame'[usernum].pc = "done"
          /\ DOMAIN soln'[usernum] = DOMAIN soln[usernum] \cup {frame[usernum].time}
          /\ \A t \in DOMAIN soln[usernum] \ {frame[usernum].time} :
               soln'[usernum][t] = soln[usernum][t]]_vars

C17_Witness ==
  \E usernum \in Users :
    /\ frame[usernum].pc = "done" /\ frame[usernum].mode = "compute_sens"
    /\ frame[usernum].own_u # soln[usernum][0]
    /\ DOMAIN soln[usernum] = {0}
    /\ DOMAIN adjsoln[usernum] = {1, 2}

(***************************************************************************)
(* Setup: the checks of the sizes against the width of the derivative      *)
(* arrays, on a mesh of one element that holds every DOF.                  *)
(***************************************************************************)
\* the compile-time width of the derivative arrays
maxDerivs == 3

\* gids[0].size() of the cell
dofsPerElem == Len(GIDs[1])
\* paramGIDs[0].size() of the cell
paramDofsPerElem == numDiscParams

\* the elements of the cell, the variables and the basis functions of a
\* variable
CellElems == DOMAIN GIDs
CellVars == DOMAIN curroffsets
CellBasis(n) == DOMAIN curroffsets[n]

\* variant of getLocalElement: local ids counted from 1
getLocalElementFromOne(cgid) ==
  IF \E k \in DOMAIN ownedAndShared : ownedAndShared[k] = cgid
    THEN CHOOSE k \in DOMAIN ownedAndShared : ownedAndShared[k] = cgid
    ELSE -1

\* LA_overlapped_map->getLocalElement: the local id of a global id, counted
\* from 0, invalid (-1) for a global id the map does not hold
getLocalElement(cgid) ==
  IF \E k \in DOMAIN ownedAndShared : ownedAndShared[k] = cgid
    THEN (CHOOSE k \in DOMAIN ownedAndShared : ownedAndShared[k] = cgid) - 1
    ELSE -1

\* the table handed to setIndex
cellIndexTable ==
  [p \in CellElems |-> [n \in CellVars |-> [i \in CellBasis(n) |->
     getLocalElement(GIDs[p][curroffsets[n][i]])]]]

\* the entries insertGlobalIndices(ind1, gids[p]) puts into the graph
graphEntries ==
  UNION { { <<GIDs[p][i], GIDs[p][j]>> : i, j \in DOMAIN GIDs[p] } : p \in CellElems }

\* setupLinearAlgebra, called by the constructor: the maps, then the cells
\* are visited: the check of the width, the index table, the graph
setupLinearAlgebra ==
  /\ pc = "idle" /\ call = "none"
  /\ call' = "setupLinearAlgebra"
  /\ IF dofsPerElem > maxDerivs \/ paramDofsPerElem > maxDerivs
       THEN /\ pc' = "error"
            /\ UNCHANGED <<cellindices, LA_overlapped_graph>>
       ELSE /\ pc' = "idle"
            /\ cellindices' = cellIndexTable
            /\ LA_overlapped_graph' = graphEntries
  /\ UNCHANGED <<settings, members, tsLocals, nlLocals, history, lin, subgrid,
                 sgfem, thermal, seed_active, ownedAndShared, GIDs, curroffsets>>

\* setupParameters, called on the constructed solver: the check of the
\* number of active parameters
setupParameters ==
  /\ pc = "idle" /\ call = "setupLinearAlgebra"
  /\ call' = "setupParameters"
  /\ pc' = IF num_active_params > maxDerivs THEN "error" ELSE "setup"
  /\ UNCHANGED <<settings, members, tsLocals, nlLocals, history, lin,
                 subgrid, sgfem, thermal, seed_active, linalg>>

\* meshes of one cell on one rank: the list of the rank's global ids, the
\* global ids of each element, the offsets of each variable
Meshes ==
  { [ownedAndShared |-> <<1>>, GIDs |-> << <<1>> >>, curroffsets |-> << <<1>> >>],
    [ownedAndShared |-> <<1, 2, 3>>, GIDs |-> << <<1, 2>>, <<2, 3>> >>,
     curroffsets |-> << <<1, 2>> >>],
    [ownedAndShared |-> <<3, 1, 2>>, GIDs |-> << <<1, 2>>, <<2, 3>> >>,
     curroffsets |-> << <<2, 1>> >>],
    [ownedAndShared |-> <<4, 2, 3, 1>>, GIDs |-> << <<1, 2>>, <<3, 4>> >>,
     curroffsets |-> << <<1>>, <<2>> >>],
    [ownedAndShared |-> <<2, 3, 1>>, GIDs |-> << <<1, 2, 3>> >>,
     curroffsets |-> << <<1, 2, 3>> >>],
    [ownedAndShared |-> <<1, 2, 3, 4>>, GIDs |-> << <<1, 2, 3, 4>> >>,
     curroffsets |-> << <<1, 3>>, <<2, 4>> >>] }

InitSetup ==
  /\ solver_type \in {"steady-state", "transient"}
  /\ numsteps = 1
  /\ time_order = 1
  /\ NLtol = Rat(1, 2)
  /\ MaxNLiter = 1
  /\ verbosity = 0
  /\ initial_time = 0
  /\ num_active_params \in 0..(maxDerivs + 1)
  /\ numDiscParams \in 0..(maxDerivs + 1)
  /\ \E mesh \in Meshes :
       /\ ownedAndShared = mesh.ownedAndShared
       /\ GIDs = mesh.GIDs
       /\ curroffsets = mesh.curroffsets
       /\ LA_owned = << {mesh.ownedAndShared[k] : k \in DOMAIN mesh.ownedAndShared} >>
  /\ cellindices = <<>> /\ LA_overlapped_graph = {}
  /\ multiscale = FALSE
  /\ my_cost = <<1>>
  /\ time_steps = 1 /\ sub_maxNLiter = 1
  /\ NoDirichlet
  /\ InitState
  /\ NoThermal /\ NoObjective

NextSetup ==
  \/ setupLinearAlgebra
  \/ setupParameters

SpecSetup == InitSetup /\ [][NextSetup]_vars

\* C18 (the claim as stated): when setup completes without error, the
\* derivative slots an element needs, dofsPerElem + nActiveParams +
\* nLocalParamDofs, fit in the width; a larger need raises an error.
C18_WidthChecked ==
  pc = "setup" => dofsPerElem + num_active_params + paramDofsPerElem <= maxDerivs

\* C22: once setupLinearAlgebra has completed, the global id the overlapped
\* map gives for index(p, n, i) is GIDs[p][offsets[n][i]], for every element
\* p, variable n and basis function i of the cell, and the overlapped graph
\* holds the entry (g, g') for every two global ids g, g' of one element.
C22_IndexTableInvertsMap ==
  (call \in {"setupLinearAlgebra", "setupParameters"}
     /\ ~(call = "setupLinearAlgebra" /\ pc = "error")) =>
    /\ \A p \in CellElems : \A n \in CellVars : \A i \in CellBasis(n) :
         /\ cellindices[p][n][i] + 1 \in DOMAIN ownedAndShared
         /\ ownedAndShared[cellindices[p][n][i] + 1] = GIDs[p][curroffsets[n][i]]
    /\ \A p \in CellElems : \A i, j \in DOMAIN GIDs[p] :
         <<GIDs[p][i], GIDs[p][j]>> \in LA_overlapped_graph

\* setup has completed on a mesh of two elements sharing a global id, whose
\* map does not list the global ids in increasing order
C22_Witness ==
  /\ call = "setupLinearAlgebra" /\ pc = "idle"
  /\ ownedAndShared = <<3, 1, 2>>
  /\ cellindices = << << <<2, 1>> >>, << <<0, 2>> >> >>
  /\ <<2, 3>> \in LA_overlapped_graph /\ <<1, 3>> \notin LA_overlapped_graph

(***************************************************************************)
(* The entry of the nonlinear solves on meshes with boundary sides of      *)
(* every kind and with point-Dirichlet DOFs.                               *)
(***************************************************************************)
\* the kinds of a boundary side: none, weak Dirichlet, Neumann, strong
\* Dirichlet
SideKinds == {0, 1, 2, 5}

InitDirichlet ==
  /\ solver_type \in {"steady-state", "transient"}
  /\ numsteps = 1
  /\ time_order = 1
  /\ NLtol = Rat(1, 2)
  /\ MaxNLiter = 1
  /\ verbosity = 0
  /\ initial_time = 0
  /\ num_active_params = 0 /\ numDiscParams = 0
  /\ LA_owned = <<{1, 2}>>
  /\ multiscale = FALSE
  /\ my_cost = <<1>>
  /\ time_steps = 1 /\ sub_maxNLiter = 1
  /\ usestrongDBCs \in BOOLEAN
  /\ side_info \in [Dofs -> SideKinds]
  /\ dbc_dofs \in SUBSET Dofs
  /\ InitState
  /\ NoThermal /\ NoObjective /\ NoMesh
  /\ is_final_time = FALSE

NextDirichlet ==
  \/ forwardModel
  \/ adjointModel
  \/ timeStepBegin
  \/ nonlinearSolverEntry

SpecDirichlet == InitDirichlet /\ [][NextDirichlet]_vars

\* C20 (the claim as stated): with strong Dirichlet conditions enabled the
\* entry of a nonlinear solve writes the prescribed value into the initial
\* guess at exactly the DOFs of the sides of kind 5 (strong Dirichlet) and 0
\* at the point-Dirichlet DOFs, and leaves the other entries as they are, in
\* particular on sides of kind 1 (weak Dirichlet) and 2 (Neumann).
C20_StrongDirichletOnly ==
  [][(pc = "nl_enter" /\ usestrongDBCs)
       => \A i \in Dofs :
            u'[i] = IF i \in dbc_dofs THEN 0
                    ELSE IF side_info[i] = 5 THEN getDirichletValue(i)
                    ELSE u[i]]_vars

\* C19 (the claim as stated): forwardModel and adjointModel called with a
\* solver type that is neither steady-state nor transient end in a
\* configuration error and hand no solution matrix back.
C19_UnknownSolverTypeFails ==
  (call \in {"forwardModel", "adjointModel"}
     /\ solver_type \notin {"steady-state", "transient"})
    => pc = "error"

(***************************************************************************)
(* The thermal physics module: setVars, volumeResidual, boundaryResidual   *)
(* and computeFlux on a workset of one element with one quadrature point   *)
(* and two basis functions per variable.  Variables and dimensions are     *)
(* numbered from 0 as in the code.  The workset is filled anew for every   *)
(* evaluation; wkset keeps one evaluation per variable list.               *)
(***************************************************************************)
\* basis functions of a variable (ebasis.dimension(1))
BasisFns == {0, 1}
\* offsets(n, i): the residual row of basis function i of variable n
offsets(n, i) == n * Cardinality(BasisFns) + i
\* what a read outside an array can return
Garbage == {0, 5}

\* variable lists a block can have: the temperature, alone or with
\* velocity components before or after it
VarLists ==
  { <<"e">>, <<"e", "ux">>, <<"ux", "e">>, <<"e", "ux", "uy">>,
    <<"ux", "uy", "e">>, <<"e", "ux", "uy", "uz">>, <<"ux", "uy", "uz", "e">> }

\* the position the loop of setVars leaves for name, before for none
lastIndexOf(list, name, before) ==
  IF \E i \in DOMAIN list : list[i] = name
    THEN (CHOOSE i \in DOMAIN list :
            list[i] = name /\ \A j \in DOMAIN list : list[j] = name => j <= i) - 1
    ELSE before

\* thermal::setVars
setVars ==
  /\ pc = "idle"
  /\ \E varlist_ \in VarLists :
       /\ varlist' = varlist_
       /\ e_num' = lastIndexOf(varlist_, "e", e_num)
       /\ ux_num' = lastIndexOf(varlist_, "ux", -1)
       /\ uy_num' = lastIndexOf(varlist_, "uy", -1)
       /\ uz_num' = lastIndexOf(varlist_, "uz", -1)
       /\ have_nsvel' = IF lastIndexOf(varlist_, "ux", -1) >= 0 THEN TRUE
                                                                 ELSE have_nsvel
  /\ wkset' = NoWkset
  /\ UNCHANGED <<settings, members, pc, call, tsLocals, nlLocals, history,
                 lin, subgrid, sgfem, spaceDim, formparam, seed_active,
                 linalg>>

\* the variables of the workset's solution arrays
WkVars == 0..(Len(varlist) - 1)
\* the rows of the workset's residual
WkRows == 0..(Len(varlist) * Cardinality(BasisFns) - 1)
\* the dimensions the code visits
Dims == 0..(spaceDim - 1)

\* solution values, gradients and basis gradients a workset can hold
WkSols == { [n \in WkVars |-> 1], [n \in WkVars |-> n + 2] }
WkGrads == { [n \in WkVars |-> [d \in 0..2 |-> 1]],
             [n \in WkVars |-> [d \in 0..2 |-> n + 2 * d + 1]] }
WkBasisGrads == { [i \in BasisFns |-> [d \in 0..2 |-> 1]],
                  [i \in BasisFns |-> [d \in 0..2 |-> i + d]] }
ebasisOf(i) == i + 1

\* sol(e, n, k, 0) and sol_grad(e, n, k, d): the values the read can give
solRead(sol, n) == IF n \in DOMAIN sol THEN {sol[n]} ELSE Garbage
gradRead(grad, n) ==
  IF n \in DOMAIN grad THEN {grad[n]} ELSE { [d \in 0..2 |-> g] : g \in Garbage }

\* the inputs of volumeResidual: function values at the quadrature point
\* and the local solution
VolInputs ==
  [rho : {1, 2}, cp : {1, 3}, diff : {1, 2}, source : {0, 1}, sol_dot : {0, 1},
   sol : WkSols, sol_grad : WkGrads, ebasis_grad : WkBasisGrads]

\* the variable indices volumeResidual uses on the solution arrays
volumeIndices ==
  {e_num} \cup
  (IF ~have_nsvel THEN {}
   ELSE IF spaceDim = 1 THEN {ux_num}
   ELSE IF spaceDim = 2 THEN {ux_num, uy_num}
   ELSE {ux_num, uy_num, uz_num})

\* the diffusion, capacity and source part of the entry of test function i
volumeBase(in, i) ==
  in.rho * in.cp * in.sol_dot * ebasisOf(i)
    + in.diff * SumOver(Dims, [d \in Dims |->
                                in.sol_grad[e_num][d] * in.ebasis_grad[i][d]])
    - in.source * ebasisOf(i)

\* the convective part of the entry of test function i, with the values
\* ux, uy, uz and the gradients gx, gy, gz read at ux_num, uy_num, uz_num
volumeConvection(in, i, ux, uy, uz, gx, gy, gz) ==
  IF ~have_nsvel THEN 0
  ELSE IF spaceDim = 1 THEN ux * in.sol_grad[e_num][0] * ebasisOf(i)
  ELSE IF spaceDim = 2
    THEN ux * in.sol_grad[e_num][0] * ebasisOf(i)
           + uy * in.sol_grad[e_num][1] * ebasisOf(i)
  ELSE gx[0] * in.ebasis_grad[i][0] + gy[1] * in.ebasis_grad[i][1]
         + gz[0] * in.ebasis_grad[i][2]

\* thermal::volumeResidual
volumeResidual ==
  /\ pc = "idle" /\ varlist # <<>> /\ wkset.op = "none"
  /\ \E in \in VolInputs, res0 \in {[j \in WkRows |-> 0], [j \in WkRows |-> j]} :
     \E ux \in solRead(in.sol, ux_num), uy \in solRead(in.sol, uy_num),
        uz \in solRead(in.sol, uz_num) :
     \E gx \in gradRead(in.sol_grad, ux_num), gy \in gradRead(in.sol_grad, uy_num),
        gz \in gradRead(in.sol_grad, uz_num) :
       wkset' = [op |-> "volumeResidual", isAdjoint |-> FALSE, in |-> in,
                 res0 |-> res0,
                 res |-> [j \in WkRows |->
                            IF \E i \in BasisFns : j = offsets(e_num, i)
                              THEN LET i == j - offsets(e_num, 0)
                                   IN res0[j] + volumeBase(in, i)
                                        + volumeConvection(in, i, ux, uy, uz,
                                                           gx, gy, gz)
                              ELSE res0[j]],
                 adjrhs |-> <<>>, flux |-> 0,
                 badIndex |-> \E n \in volumeIndices : n \notin WkVars]
  /\ UNCHANGED <<settings, members, pc, call, tsLocals, nlLocals, history,
                 lin, subgrid, sgfem, spaceDim, formparam, varlist, e_num,
                 ux_num, uy_num, uz_num, have_nsvel, seed_active, linalg>>

\* outward normals of the side
Normals == { [d \in 0..2 |-> 1], [d \in 0..2 |-> IF d = 0 THEN 1 ELSE 0] }

\* the inputs of boundaryResidual and computeFlux: the kind of the side
\* (sideinfo(e, e_num, cside, 0)), whether its data come from the mortar
\* trace (sideinfo(e, e_num, cside, 1) = -1), function values at the side
\* quadrature point, the local solution and wkset->isAdjoint
SideInputs ==
  [kind : {0, 1, 2}, auxflag : {-1, 0}, aux : {0, 2}, nsource : {1},
   diff_side : {1, 2}, h : {1, 2}, sol : WkSols, sol_grad : WkGrads,
   normals : Normals, ebasis_grad : WkBasisGrads, isAdjoint : BOOLEAN]

\* sf of boundaryResidual
boundarySf(isAdjoint) == IF isAdjoint THEN 1 ELSE formparam
\* sf of computeFlux
fluxSf(isAdjoint) == IF isAdjoint THEN formparam ELSE 1

\* lambda of the weak Dirichlet branch
sideLambda(in) == IF in.auxflag = -1 THEN in.aux ELSE 0
\* weakDiriScale and penalty
weakDiriScale(in) == (10 * in.diff_side) \div in.h

\* what the weak Dirichlet branch adds to the residual row of test function i
weakDirichletEntry(sf, in, i) ==
  SumOver(Dims, [d \in Dims |->
      (-in.diff_side) * in.sol_grad[e_num][d] * in.normals[d] * ebasisOf(i)
        - sf * in.diff_side * in.ebasis_grad[i][d] * in.normals[d]
            * (in.sol[e_num] - sideLambda(in))])
    + weakDiriScale(in) * (in.sol[e_num] - sideLambda(in)) * ebasisOf(i)

\* what the weak Dirichlet branch adds to adjrhs in adjoint mode
weakDirichletAdjRhs(sf, in, i) ==
  SumOver(Dims, [d \in Dims |->
      sf * in.diff_side * in.ebasis_grad[i][d] * in.normals[d] * sideLambda(in)])
    - weakDiriScale(in) * sideLambda(in) * ebasisOf(i)

\* thermal::boundaryResidual
boundaryResidual ==
  /\ pc = "idle" /\ varlist # <<>> /\ wkset.op = "none"
  /\ \E in \in SideInputs :
       LET sf == boundarySf(in.isAdjoint)
           row(j) == j - offsets(e_num, 0)
           mine(j) == \E i \in BasisFns : j = offsets(e_num, i)
       IN wkset' = [op |-> "boundaryResidual", isAdjoint |-> in.isAdjoint,
                    in |-> in, res0 |-> [j \in WkRows |-> 0],
                    res |-> [j \in WkRows |->
                               IF ~mine(j) THEN 0
                               ELSE IF in.kind = 2
                                 THEN (-in.nsource) * ebasisOf(row(j))
                               ELSE IF in.kind = 1
                                 THEN weakDirichletEntry(sf, in, row(j))
                               ELSE 0],
                    adjrhs |-> [j \in WkRows |->
                                  IF mine(j) /\ in.kind = 1 /\ in.isAdjoint
                                    THEN weakDirichletAdjRhs(sf, in, row(j))
                                    ELSE 0],
                    flux |-> 0, badIndex |-> FALSE]
  /\ UNCHANGED <<settings, members, pc, call, tsLocals, nlLocals, history,
                 lin, subgrid, sgfem, spaceDim, formparam, varlist, e_num,
                 ux_num, uy_num, uz_num, have_nsvel, seed_active, linalg>>

\* flux(n, e_num, i) of computeFlux, with symmetry factor sf
fluxValue(sf, in) ==
  SumOver(Dims, [d \in Dims |->
      sf * in.diff_side * in.sol_grad[e_num][d] * in.normals[d]])
    + weakDiriScale(in) * (in.aux - in.sol[e_num])

\* thermal::computeFlux
computeFlux ==
  /\ pc = "idle" /\ varlist # <<>> /\ wkset.op = "none"
  /\ \E in \in SideInputs :
       wkset' = [op |-> "computeFlux", isAdjoint |-> in.isAdjoint, in |-> in,
                 res0 |-> <<>>, res |-> <<>>, adjrhs |-> <<>>,
                 flux |-> fluxValue(fluxSf(in.isAdjoint), in),
                 badIndex |-> FALSE]
  /\ UNCHANGED <<settings, members, pc, call, tsLocals, nlLocals, history,
                 lin, subgrid, sgfem, spaceDim, formparam, varlist, e_num,
                 ux_num, uy_num, uz_num, have_nsvel, seed_active, linalg>>

\* configured "form_param": nonsymmetric, incomplete, symmetric
FormParams == {-1, 0, 1}

\* the thermal module after its constructor, in a solver that is idle
InitThermal ==
  /\ solver_type = "steady-state"
  /\ numsteps = 1
  /\ time_order = 1
  /\ NLtol = Rat(1, 2)
  /\ MaxNLiter = 1
  /\ verbosity = 0
  /\ initial_time = 0
  /\ num_active_params = 0 /\ numDiscParams = 0
  /\ LA_owned = <<{1}>>
  /\ multiscale = FALSE
  /\ my_cost = <<1>>
  /\ time_steps = 1 /\ sub_maxNLiter = 1
  /\ NoDirichlet
  /\ InitState
  /\ is_final_time = FALSE
  /\ spaceDim \in {1, 2, 3}
  /\ formparam \in FormParams
  /\ varlist = <<>>
  /\ e_num = 0 /\ ux_num = 0 /\ uy_num = 0 /\ uz_num = 0
  /\ have_nsvel = FALSE
  /\ wkset = NoWkset
  /\ NoObjective /\ NoMesh

NextThermal ==
  \/ setVars
  \/ volumeResidual
  \/ boundaryResidual
  \/ computeFlux

SpecThermal == InitThermal /\ [][NextThermal]_vars

\* the position of name in the current variable list, -1 when absent
C21_Position(name) ==
  IF \E i \in DOMAIN varlist : varlist[i] = name
    THEN (CHOOSE i \in DOMAIN varlist : varlist[i] = name) - 1
    ELSE -1

\* C21 (the claim as stated): once setVars was called, convective transport
\* is enabled exactly if the latest variable list contains the velocity,
\* e_num, ux_num, uy_num, uz_num are the positions of e, ux, uy, uz in that
\* list (-1 for an absent velocity component), and no residual evaluation
\* indexes the solution with -1.
C21_CouplingFollowsLatestList ==
  varlist # <<>> =>
    /\ have_nsvel <=> C21_Position("ux") >= 0
    /\ e_num = C21_Position("e")
    /\ ux_num = C21_Position("ux")
    /\ uy_num = C21_Position("uy")
    /\ uz_num = C21_Position("uz")
    /\ ~wkset.badIndex

\* the Nitsche symmetry factor of the claim
C24_s(isAdjoint) == IF isAdjoint THEN 1 ELSE formparam

\* C24 (the claim as stated): on a weak Dirichlet side boundaryResidual
\* uses the factor 1 in adjoint mode and form_param otherwise, and the flux
\* computeFlux produces has its diffusive term scaled by the same factor for
\* the same mode.
C24_SameSymmetryFactor ==
  /\ (wkset.op = "boundaryResidual" /\ wkset.in.kind = 1) =>
       \A i \in BasisFns :
         wkset.res[offsets(e_num, i)]
           = weakDirichletEntry(C24_s(wkset.isAdjoint), wkset.in, i)
  /\ wkset.op = "computeFlux" =>
       wkset.flux = fluxValue(C24_s(wkset.isAdjoint), wkset.in)

\* the entry of test function i the claim gives, v being the velocity values
C25_Entry(in, i) ==
  in.rho * in.cp * in.sol_dot * ebasisOf(i)
    + in.diff * SumOver(Dims, [d \in Dims |->
                                in.sol_grad[e_num][d] * in.ebasis_grad[i][d]])
    - in.source * ebasisOf(i)
    + (IF have_nsvel
         THEN LET vnum == <<ux_num, uy_num, uz_num>>
              IN SumOver(Dims, [d \in Dims |->
                                 in.sol[vnum[d + 1]] * in.sol_grad[e_num][d]])
                   * ebasisOf(i)
         ELSE 0)

\* C25 (the claim as stated): in every dimension, with the variables it
\* uses present in the list, volumeResidual adds to row offsets(e_num, i)
\* exactly rho*cp*(du/dt)*phi_i + kappa*(grad u . grad phi_i) - f*phi_i, plus
\* (v . grad u)*phi_i when a velocity is coupled, and changes no other row.
C25_VolumeResidualEntries ==
  (wkset.op = "volumeResidual" /\ volumeIndices \subseteq WkVars) =>
    \A j \in WkRows :
      wkset.res[j] = wkset.res0[j]
        + (IF \E i \in BasisFns : j = offsets(e_num, i)
             THEN C25_Entry(wkset.in, j - offsets(e_num, 0))
             ELSE 0)

\* the level u_{n-1} of the stencil at step timeiter: the column before
\* u_n, which at the first step is the initial condition itself
C23_Older == IF timeiter = 0 THEN SolMat[0] ELSE SolMat[timeiter - 1]

C27_StoreAdjPrevOnlyAdjoint ==
  (passLog.caller # "none" /\ passLog.store_adjPrev) =>
    /\ passLog.useadjoint
    /\ passLog.caller = "newton" => passLog.NLiter = 1

(***************************************************************************)
(* Specification                                                           *)
(***************************************************************************)
\* the time the claim expects at a step: solvetimes[timeiter + 1] in the
\* forward pass, solvetimes[N - timeiter], the time of the loaded forward
\* column, in the adjoint pass
C29_ExpectedTime(k) ==
  IF call = "adjointModel" THEN solvetimes[numsteps - k] ELSE solvetimes[k + 1]

\* C29: in a transient adjoint call the time used for assembly at adjoint
\* step k is solvetimes[N-k], the time at which the loaded forward column
\* N-k was computed, for every initial and final time; the forward pass
\* visits solvetimes[1..N] in increasing order.
C29_AssemblyTimeMatchesColumn ==
  /\ (isTransient /\ stepLog.valid) =>
       stepLog.time = C29_ExpectedTime(stepLog.timeiter)
  /\ (isTransient /\ passLog.caller = "newton") =>
       passLog.time = C29_ExpectedTime(passLog.timeiter)

\* the recomputed forward substeps of a transient adjoint call are chained
C30_Chained(f) ==
  \A j \in 1..Len(f.curr_fsol) :
    /\ f.log[j].start = IF j = 1 THEN f.own_u ELSE f.log[j - 1].result
    /\ f.curr_fsol[j] = f.log[j].result

\* the adjoint sweep visits the recomputed substeps backwards, each adjoint
\* substep at its own substep's time and state, with indices in bounds
C30_Reversed(f) ==
  /\ f.pc = "sweep" => (time_steps - f.tstep) \in 1..Len(f.curr_fsol)
  /\ \A k \in 1..(Len(f.log) - Len(f.curr_fsol)) :
       LET j == time_steps - k + 1 IN
       /\ j \in 1..Len(f.curr_fsol)
       /\ f.log[time_steps + k].isAdjoint
       /\ f.log[time_steps + k].sgtime = f.log[j].sgtime
       /\ f.log[time_steps + k].at = f.curr_fsol[j]

\* C30: in a transient adjoint call of subgridSolver the forward substep
\* states recomputed before the sweep are the chained sequence of a forward
\* call (substep j starts from the result of substep j-1), and the sweep
\* visits them in reverse order, each adjoint substep linearized at the
\* state of its own substep, with all indices in bounds.
C30_ResolveChainedSweepReversed ==
  \A usernum \in Users :
    LET f == frame[usernum] IN
    (isTransient /\ f.mode = "adjoint" /\ f.pc \in {"resolve", "sweep", "finish", "done"})
      => C30_Chained(f) /\ C30_Reversed(f)

Init == InitSettings /\ InitState /\ NoThermal /\ NoObjective /\ NoMesh

Next ==
  \/ forwardModel
  \/ adjointModel
  \/ timeStepBegin
  \/ timeStepEnd
  \/ transientReturn
  \/ steadyReturn
  \/ nonlinearSolverEntry
  \/ nlLoopTest
  \/ nlAssemble
  \/ nlExport
  \/ nlNormCheck
  \/ linearSolver
  \/ nlImport
  \/ nlUpdate
  \/ nlIncrement
  \/ nlExit
  \/ epetraLinearSolver
  \/ epetraConstructPreconditioner
  \/ epetraIterate
  \/ epetraReturn

Spec == Init /\ [][Next]_vars

(***************************************************************************)
(* Active-parameter seeding across forwardModel, forwardModel_fr and       *)
(* adjointModel.  seed_active is the argument of the most recent           *)
(* sacadoizeParams call; the calls made before the one modelled left it    *)
(* either way (a steady-state forwardModel with compute_objective ends on  *)
(* sacadoizeParams(true)), so InitSeed draws it from BOOLEAN.              *)
(***************************************************************************)
\* forwardModel_fr: forwardModel with the steady-state solve started from
\* the initial state
forwardModel_fr ==
  /\ pc = "idle"
  /\ call' = "forwardModel_fr"
  /\ useadjoint' = FALSE
  /\ gradient' = <<>>
  /\ \E initial \in [Dofs -> SolVals] :
       CASE solver_type = "transient" ->
              transientEntry(initial, EmptySoln(1), withInitial(initial))
         [] solver_type = "steady-state" ->
              steadyEntry(initial, EmptySoln(1), EmptySoln(numsols))
         [] OTHER -> noSolve(EmptySoln(1), EmptySoln(numsols))
  /\ seed_active' = FALSE
  /\ UNCHANGED <<settings, store_adjPrev, nlLocals, history, lin, subgrid,
                 sgfem, thermal, linalg>>

InitSeed ==
  /\ solver_type \in {"steady-state", "transient", "none"}
  /\ numsteps \in 1..MaxSteps
  /\ solver_type # "transient" => numsteps = 1
  /\ time_order = 1
  /\ NLtol = Rat(1, 2)
  /\ MaxNLiter = 1
  /\ verbosity = 0
  /\ initial_time = 0
  /\ num_active_params \in RunParamCounts
  /\ numDiscParams = 0
  /\ multiscale = FALSE
  /\ LA_owned = <<{1}>>
  /\ my_cost = <<1>>
  /\ time_steps = 1 /\ sub_maxNLiter = 1
  /\ NoDirichlet
  /\ InitState
  /\ NoThermal /\ NoMesh
  /\ compute_objective \in BOOLEAN
  /\ seed_active \in BOOLEAN

NextSeed ==
  \/ Next
  \/ forwardModel_fr

SpecSeed == InitSeed /\ [][NextSeed]_vars

\* the positions from the call of nonlinearSolver to its return
InNonlinearSolver == pc \in NLPcs \cup {"nl_enter"}

\* C28: whenever nonlinearSolver is invoked or running, in forwardModel,
\* forwardModel_fr or adjointModel, steady or transient, with or without
\* objective computation, the most recent sacadoizeParams call had
\* seed_active = false, so every assembly pass of the Newton loop runs
\* with the seeding switched off.
C28_NewtonRunsUnseeded ==
  InNonlinearSolver => seed_active = FALSE

\* a later time step of a call that computed the objective or the gradient
\* after its first step enters the Newton loop
C28_Witness ==
  /\ pc = "nl_enter"
  /\ timeiter = 1
  /\ useadjoint \/ compute_objective
  /\ call \in {"forwardModel", "forwardModel_fr", "adjointModel"}

(***************************************************************************)
(* The Newton updates of solver::nonlinearSolver and of                    *)
(* SubGridFEM2::subGridNonlinearSolver together.  Without subgrid models   *)
(* (multiscale off) only the macro solver runs; with them, the sub-solves  *)
(* are taken as the macro assembly makes them, the macro steps between     *)
(* them left out: they do not touch the subgrid vectors, and the           *)
(* sub-solves do not touch u, u_dot, phi, phi_dot of the macro solver.     *)
(***************************************************************************)
InitNewton ==
  \/ /\ InitSettings
     /\ NLtol = Rat(1, 2)
     /\ MaxNLiter <= 2
     /\ verbosity = 0
     /\ initial_time = 0
     /\ num_active_params = 0
     /\ multiscale = FALSE
     /\ InitState
     /\ is_final_time = FALSE
     /\ NoThermal /\ NoObjective /\ NoMesh
  \/ InitSubgrid

NextNewton ==
  \/ ~multiscale /\ Next
  \/ multiscale /\ NextSubgrid

SpecNewton == InitNewton /\ [][NextNewton]_vars

\* u_dot - alpha*u of a state and its time derivative
C26_Combination(x, x_dot, a) == [i \in DOMAIN x |-> x_dot[i] - a * x[i]]

\* the steps of the macro Newton loop: the update adds du and alpha*du to
\* the solved-for pair and keeps the combination, every step of the loop
\* leaves the other pair alone
C26_MacroStep ==
  (pc \in NLPcs) =>
    /\ IF useadjoint THEN u' = u /\ u_dot' = u_dot
                     ELSE phi' = phi /\ phi_dot' = phi_dot
    /\ C26_Combination(u', u_dot', alpha) = C26_Combination(u, u_dot, alpha)
    /\ C26_Combination(phi', phi_dot', alpha) = C26_Combination(phi, phi_dot, alpha)
    /\ pc = "nl_update" =>
         IF useadjoint
           THEN /\ phi' = [i \in Dofs |-> phi[i] + du[i]]
                /\ phi_dot' = [i \in Dofs |-> phi_dot[i] + alpha * du[i]]
           ELSE /\ u' = [i \in Dofs |-> u[i] + du[i]]
                /\ u_dot' = [i \in Dofs |-> u_dot[i] + alpha * du[i]]

\* one sub-solve of the subgrid: e is its log entry, d the sum of its
\* updates, a its alpha (times macro_deltat), z the time derivative it
\* starts from (zeroed before a transient sub-solve)
C26_SubStep(e) ==
  LET d == e.result - e.start
      a == IF isTransient THEN time_steps ELSE 0
      inPlace == e.then = solveSensFlux
  IN
  /\ e.alpha = a
  /\ IF e.isAdjoint
       THEN LET z == IF isTransient THEN 0 ELSE sub_phi_dot IN
            /\ sub_phi' = sub_phi + d
            /\ sub_phi_dot' = z + a * d
            /\ sub_phi_dot' - a * sub_phi' = z - a * sub_phi
            /\ sub_u' = sub_u /\ sub_u_dot' = sub_u_dot
       ELSE LET z == IF isTransient THEN 0 ELSE sub_u_dot IN
            /\ inPlace => /\ sub_u' = sub_u + d
                          /\ sub_u_dot' = z + a * d
                          /\ sub_u_dot' - a * sub_u' = z - a * sub_u
            /\ ~inPlace => sub_u' = sub_u /\ sub_u_dot' = sub_u_dot
            /\ sub_phi' = sub_phi /\ sub_phi_dot' = sub_phi_dot

\* C26: every Newton update of nonlinearSolver and of
\* subGridNonlinearSolver adds du to the solved-for state and alpha*du to
\* its time derivative, so that u_dot - alpha*u (forward) or
\* phi_dot - alpha*phi (adjoint) is the same after the loop as before it;
\* forward updates never modify phi, phi_dot, adjoint updates never modify
\* u, u_dot.
C26_NewtonUpdate ==
  [][/\ C26_MacroStep
     /\ \A usernum \in Users :
          Len(frame'[usernum].log) = Len(frame[usernum].log) + 1 =>
            C26_SubStep(frame'[usernum].log[Len(frame'[usernum].log)])]_vars

\* an adjoint update of the macro solver that changed phi with a nonzero
\* alpha, or a transient adjoint sub-solve that changed sub_phi
C26_Witness ==
  \/ /\ pc = "nl_incr" /\ useadjoint /\ alpha # 0
     /\ \E i \in Dofs : du[i] # 0 /\ phi[i] # 0
  \/ /\ isTransient
     /\ \E usernum \in Users :
          /\ frame[usernum].log # <<>>
          /\ LET e == frame[usernum].log[Len(frame[usernum].log)] IN
               e.isAdjoint /\ e.result # e.start /\ sub_phi_dot # 0

=============================================================================
